---- MODULE Spec2Model ----
(***************************************************************************)
(* BabySynth: session recording (session_manager.py), pattern detection    *)
(* and replay (playback_engine.py), LED animations (led_animator.py),      *)
(* turn taking (turn_taker.py) and configuration reload                    *)
(* (config_reloader.py, synth.py).                                         *)
(*                                                                         *)
(* Time is counted in ticks of 0.1 s, so the detector's thresholds of      *)
(* 0.3 s and 3.0 s are 3 and 30 ticks.  time.time() is the variable now.   *)
(***************************************************************************)
EXTENDS Integers, Sequences, FiniteSets, TLC

VARIABLES
    \* ---- the sqlite store and the SessionManager object
    sessions,            \* table sessions, in rowid order
    events,              \* table events, in rowid order
    led_changes,         \* table led_changes, in rowid order
    patterns,            \* table patterns, in rowid order
    current_session_id,  \* SessionManager.current_session_id (NoSession = None)
    session_start_time,  \* SessionManager.session_start_time (NULL = None)
    now,                 \* time.time()
    last_call,           \* history: the last completed call and how it ended
    calls,               \* history: event-recording calls issued per session id
    overlap,             \* history: some call was issued while another was running
    \* ---- threads calling record_* concurrently
    wpc,                 \* writer -> position in _record_event / record_led_change
    wloc,                \* writer -> locals (kind, timestamp, relative_time, sid)
    \* ---- the thread calling start_session / end_session
    cpc,                 \* position in start_session / end_session
    cloc,                \* its locals (end_time, duration, total_events)
    \* ---- the PlaybackEngine object and its threads
    is_playing,          \* PlaybackEngine.is_playing
    is_paused,           \* PlaybackEngine.is_paused
    playback_speed,      \* PlaybackEngine.playback_speed, as num/den
    grid,                \* lp.panel.led(x, y).color, per cell
    loops,               \* the _playback_loop threads started so far, with
                         \* their locals; playback_thread is the last one
    upc,                 \* the thread that calls play_session/pause/resume/stop
    \* ---- the LEDAnimator object and its threads
    active_animations,   \* LEDAnimator.active_animations: key -> thread (0 = no entry)
    animation_stop_flags,\* LEDAnimator.animation_stop_flags: key -> flag (0 = no entry)
    anim_lock,           \* LEDAnimator.lock: "free", or "caller" while stop_animation joins
    athreads,            \* the animation threads created so far, with their
                         \* stop flag (thread t owns flag t)
    apc,                 \* the thread that calls the animator, and its locals
    \* ---- the TurnTaker object and the threads asking it
    mode,                \* TurnTaker.mode
    current_player,      \* TurnTaker.current_player
    tcall,               \* caller -> position in can_player_press and locals
    \* ---- the synth configuration and the ConfigReloader object
    synth,               \* the attributes load_config and assign_notes_and_files set
    config_history,      \* ConfigReloader.config_history
    notified,            \* what the reload callbacks were told, in order
    \* ---- the file generate_session_video_ascii writes
    output_file          \* its frames, <<>> while the file does not exist

storeVars == <<sessions, events, led_changes, patterns, current_session_id,
               session_start_time>>
writerVars == <<wpc, wloc>>
ctlVars == <<cpc, cloc>>
playVars == <<is_playing, is_paused, playback_speed, grid, loops, upc>>
animVars == <<active_animations, animation_stop_flags, anim_lock, athreads, apc>>
turnVars == <<mode, current_player, tcall>>
cfgVars == <<synth, config_history, notified>>
outVars == <<output_file>>
extVars == <<animVars, turnVars, cfgVars, outVars>>

\* ------------------------------------------------------------------ bounds
MaxSessions == 2
MaxEvents == 2
MaxDetectEvents == 5
MaxTicks == 1
MaxRows == 2
Epoch == 7
NWriters == 2
MaxPlayPresses == 4
MaxPlayLeds == 2
MaxPlayTicks == 2
MaxPlays == 1
MaxRepeatPresses == 7
MaxReplays == 2
MaxTieTicks == 2
ListLimit == 1
MaxAsciiLeds == 3
MaxPatternRows == 2
NestPresses == 7
MaxAnims == 3
MaxReloads == 3
MaxConfigs == 2

\* ------------------------------------------------------------------ constants
NoSession == 0
RapidGap == 3
PauseGap == 30
sequence_length == 3
JoinTimeout == 10
NoPlayer == 0
max_history == 10

NULL == 0 - 1

Gaps == {1, RapidGap, PauseGap + 1}
LifeGaps == {1, PauseGap + 1}
Buttons == {<<0, 0>>}
Colors == {<<0, 0, 0>>, <<255, 0, 0>>}
LifeColors == {<<255, 0, 0>>}
Profiles == {"A", "B"}
Writers == 1..NWriters
Cells == {<<0, 0>>, <<1, 0>>}
RepeatButtons == {<<0, 0>>, <<1, 1>>, <<2, 2>>, <<5, 5>>}
Off == <<0, 0, 0>>
White == <<255, 255, 255>>

\* ------------------------------------------------------------------ helpers
RECURSIVE InsertByKey(_, _)
\* insert the pair p = <<key, row>> after every pair whose key is <= p's
InsertByKey(sorted, p) ==
    IF sorted = <<>> THEN <<p>>
    ELSE IF sorted[Len(sorted)][1] <= p[1] THEN Append(sorted, p)
    ELSE Append(InsertByKey(SubSeq(sorted, 1, Len(sorted) - 1), p),
                sorted[Len(sorted)])

RECURSIVE SortPairs(_)
\* a stable sort of <<key, row>> pairs by key
SortPairs(ps) ==
    IF ps = <<>> THEN <<>>
    ELSE InsertByKey(SortPairs(SubSeq(ps, 1, Len(ps) - 1)), ps[Len(ps)])

\* the rows as the search of idx_events_session / idx_led_session on
\* (session_id, timestamp) visits them: by timestamp, then by rowid
IndexOrder(rows) ==
    LET ps == SortPairs([i \in 1..Len(rows) |-> <<rows[i].timestamp, rows[i]>>])
    IN  [i \in 1..Len(ps) |-> ps[i][2]]

\* ORDER BY relative_time ASC: the sorter keeps rows with equal keys in the
\* order in which the search delivered them
OrderByRelativeTime(rows) ==
    LET scan == IndexOrder(rows)
        ps == SortPairs([i \in 1..Len(scan) |-> <<scan[i].relative_time, scan[i]>>])
    IN  [i \in 1..Len(ps) |-> ps[i][2]]

RowsOf(table, sid) == SelectSeq(table, LAMBDA r : r.session_id = sid)

\* ------------------------------------------------------------------ reads
get_session_events(evs, sid) == OrderByRelativeTime(RowsOf(evs, sid))

get_session_led_changes(leds, sid) == OrderByRelativeTime(RowsOf(leds, sid))

\* get_session_patterns (lines 422-437): ORDER BY start_time ASC over the
\* rows of the session in rowid order
get_session_patterns(pats, sid) ==
    LET rows == RowsOf(pats, sid)
        ps == SortPairs([i \in 1..Len(rows) |-> <<rows[i].start_time, rows[i]>>])
    IN  [i \in 1..Len(ps) |-> ps[i][2]]

\* the first row of the table, whatever id is asked for
get_session_first(rows, session_id) ==
    IF rows = <<>> THEN <<>> ELSE <<rows[1]>>

\* get_session (lines 249-264): fetchone of SELECT ... WHERE id = ?; None is
\* written <<>> and a row r is written <<r>>
get_session(rows, session_id) ==
    LET found == SelectSeq(rows, LAMBDA r : r.id = session_id)
    IN  IF found = <<>> THEN <<>> ELSE <<found[1]>>

\* get_session_summary (lines 466-509): {} is written <<>>; the counts of
\* the dictionary it returns otherwise
get_session_summary(rows, evs, pats, session_id) ==
    LET session == get_session(rows, session_id)
        es == get_session_events(evs, session_id)
        ps == get_session_patterns(pats, session_id)
    IN  IF session = <<>> \/ es = <<>>
        THEN <<>>
        ELSE <<[session_id |-> session_id,
                duration |-> session[1].duration,
                total_events |-> Len(es),
                button_presses |->
                    Len(SelectSeq(es, LAMBDA e : e.event_type = "button_press")),
                patterns_detected |-> Len(ps)]>>

\* json.dump (line 461): a TEXT column becomes a string, None becomes null,
\* any other value a number; a row becomes an object with the row's keys
json_object(row) ==
    [k \in DOMAIN row |->
        IF k \in {"event_type", "user_profile", "pattern_type", "description"}
        THEN [type |-> "string", value |-> row[k]]
        ELSE IF row[k] = NULL THEN [type |-> "null"]
        ELSE [type |-> "number", value |-> row[k]]]

json_array(rows) == [i \in 1..Len(rows) |-> json_object(rows[i])]

\* a document whose led_changes key holds the events
export_data_events_twice(session, evs, leds, pats, at) ==
    [session |-> IF session = <<>> THEN [type |-> "null"] ELSE json_object(session[1]),
     events |-> json_array(evs),
     led_changes |-> json_array(evs),
     patterns |-> json_array(pats),
     exported_at |-> [type |-> "string", value |-> at]]

\* export_data (lines 451-457) as json.dump writes it
export_data(session, evs, leds, pats, at) ==
    [session |-> IF session = <<>> THEN [type |-> "null"] ELSE json_object(session[1]),
     events |-> json_array(evs),
     led_changes |-> json_array(leds),
     patterns |-> json_array(pats),
     exported_at |-> [type |-> "string", value |-> at]]

\* export_session (lines 440-464): the document written to output_path when
\* the store holds rows, evs, leds and pats and the clock reads at
export_session(rows, evs, leds, pats, at, session_id) ==
    export_data(get_session(rows, session_id),
                get_session_events(evs, session_id),
                get_session_led_changes(leds, session_id),
                get_session_patterns(pats, session_id), at)

\* a query with no WHERE clause for any profile
list_sessions_unfiltered(rows, user_profile, limit) ==
    LET ps == SortPairs([i \in 1..Len(rows) |-> <<0 - rows[i].start_time, rows[i]>>])
    IN  [i \in 1..(IF limit < Len(ps) THEN limit ELSE Len(ps)) |-> ps[i][2]]

\* list_sessions (lines 266-298): "if user_profile:" is false for None and
\* for "", both written "" here; ORDER BY start_time DESC keeps sessions
\* with equal start_time in rowid order; LIMIT ?
list_sessions(rows, user_profile, limit) ==
    LET sel == IF user_profile # ""
               THEN SelectSeq(rows, LAMBDA r : r.user_profile = user_profile)
               ELSE rows
        ps == SortPairs([i \in 1..Len(sel) |-> <<0 - sel[i].start_time, sel[i]>>])
    IN  [i \in 1..(IF limit < Len(ps) THEN limit ELSE Len(ps)) |-> ps[i][2]]

\* ------------------------------------------------------------------ detect_patterns
RECURSIVE RapidScan(_, _, _, _, _)
\* the loop of lines 357-376: i is the (1-based) index, start/count the
\* running rapid_sequence_start / rapid_sequence_count, acc the rows inserted
RapidScan(evs, i, start, count, acc) ==
    IF i > Len(evs) - 1 THEN acc
    ELSE IF evs[i].event_type = "button_press"
    THEN LET time_diff == evs[i + 1].relative_time - evs[i].relative_time
         IN  IF time_diff < RapidGap /\ evs[i + 1].event_type = "button_press"
             THEN RapidScan(evs, i + 1,
                            IF start = NULL THEN evs[i].relative_time ELSE start,
                            count + 1, acc)
             ELSE RapidScan(evs, i + 1, NULL, 0,
                            IF count >= 3
                            THEN Append(acc, [pattern_type |-> "rapid_sequence",
                                              start_time |-> start,
                                              end_time |-> evs[i].relative_time,
                                              description |-> <<"Rapid sequence of notes", count>>])
                            ELSE acc)
    ELSE RapidScan(evs, i + 1, start, count, acc)

RapidSequences(evs) == RapidScan(evs, 1, NULL, 0, <<>>)

RECURSIVE PauseScan(_, _, _)
\* the loop of lines 379-390
PauseScan(evs, i, acc) ==
    IF i > Len(evs) - 1 THEN acc
    ELSE LET time_diff == evs[i + 1].relative_time - evs[i].relative_time
         IN  PauseScan(evs, i + 1,
                 IF /\ evs[i].event_type = "button_press"
                    /\ evs[i + 1].event_type = "button_press"
                    /\ time_diff > PauseGap
                 THEN Append(acc, [pattern_type |-> "long_pause",
                                   start_time |-> evs[i].relative_time,
                                   end_time |-> evs[i + 1].relative_time,
                                   description |-> <<"Pause", time_diff>>])
                 ELSE acc)

LongPauses(evs) == PauseScan(evs, 1, <<>>)

\* a window known by its first press alone
PositionsOfFirst(press, i) == <<<<press[i].x, press[i].y>>>>

\* pattern_positions / later_positions (lines 398-404)
Positions(press, i) == [j \in 1..sequence_length |-> <<press[i + j - 1].x, press[i + j - 1].y>>]

RECURSIVE RepeatScan(_, _, _)
\* the loops of lines 397-416 over the 1-based window starts i
RepeatScan(press, i, acc) ==
    IF i > Len(press) - sequence_length + 1 THEN acc
    ELSE LET later == {k \in (i + sequence_length)..(Len(press) - sequence_length + 1) :
                          Positions(press, k) = Positions(press, i)}
         IN  RepeatScan(press, i + 1,
                 IF later # {}
                 THEN LET k == CHOOSE m \in later : \A n \in later : m <= n
                      IN  Append(acc, [pattern_type |-> "repeated_sequence",
                                       start_time |-> press[i].relative_time,
                                       end_time |-> press[k + sequence_length - 1].relative_time,
                                       description |-> <<"Repeated sequence discovered", 0>>])
                 ELSE acc)

RepeatedSequences(evs) ==
    LET press_events == SelectSeq(evs, LAMBDA e : e.event_type = "button_press")
    IN  IF Len(press_events) >= sequence_length * 2
        THEN RepeatScan(press_events, 1, <<>>)
        ELSE <<>>

\* the pattern rows detect_patterns(session_id) inserts, in insertion order
detect_patterns(evs, sid) ==
    LET es == get_session_events(evs, sid)
        found == IF Len(es) < 3 THEN <<>>
                 ELSE RapidSequences(es) \o LongPauses(es) \o RepeatedSequences(es)
    IN  [i \in 1..Len(found) |->
            [session_id |-> sid,
             pattern_type |-> found[i].pattern_type,
             start_time |-> found[i].start_time,
             end_time |-> found[i].end_time,
             description |-> found[i].description]]

\* ------------------------------------------------------------------ rows
EventRow(tbl, sid, ts, rel, type, x, y) ==
    [id |-> Len(tbl) + 1, session_id |-> sid, timestamp |-> ts,
     relative_time |-> rel, event_type |-> type, x |-> x, y |-> y]

LedRow(tbl, sid, ts, rel, x, y, color) ==
    [id |-> Len(tbl) + 1, session_id |-> sid, timestamp |-> ts,
     relative_time |-> rel, x |-> x, y |-> y,
     color_r |-> color[1], color_g |-> color[2], color_b |-> color[3]]

SessionRow(tbl, start, profile) ==
    [id |-> Len(tbl) + 1, start_time |-> start, end_time |-> NULL,
     duration |-> NULL, user_profile |-> profile, total_events |-> 0]

\* INSERT ... ; commit(): one write transaction
InsertRow(tbl, row) == Append(tbl, row)

\* ------------------------------------------------------------------ Init
AnimKeys == {<<4, 4>>}
TCallers == {1, 2}

\* LEDAnimator.__init__ (led_animator.py 39-47), TurnTaker.__init__
\* (turn_taker.py 50-87), and a synth whose six configuration attributes
\* all come from the configuration loaded at start-up, number 0.
InitExt ==
    /\ active_animations = [k \in AnimKeys |-> 0]
    /\ animation_stop_flags = [k \in AnimKeys |-> 0]
    /\ anim_lock = "free"
    /\ athreads = <<>>
    /\ apc = [pc |-> "idle", op |-> "none", key |-> <<>>, keys |-> {}]
    /\ mode = "free_play"
    /\ current_player = 1
    /\ tcall = [c \in TCallers |-> [pc |-> "idle"]]
    /\ synth = [model_name |-> 0, models |-> 0, scales |-> 0, colors |-> 0,
                notes |-> 0, audio_files |-> 0]
    /\ config_history = <<>>
    /\ notified = <<>>
    /\ output_file = <<>>

Init ==
    /\ sessions = <<>>
    /\ events = <<>>
    /\ led_changes = <<>>
    /\ patterns = <<>>
    /\ current_session_id = NoSession
    /\ session_start_time = NULL
    /\ now = Epoch
    /\ last_call = [op |-> "init", result |-> "ok"]
    /\ calls = [s \in 1..(MaxSessions + 1) |-> 0]
    /\ overlap = FALSE
    /\ wpc = [w \in Writers |-> "idle"]
    /\ wloc = [w \in Writers |-> [kind |-> "none"]]
    /\ cpc = "idle"
    /\ cloc = [op |-> "none"]
    /\ is_playing = FALSE
    /\ is_paused = FALSE
    /\ playback_speed = [num |-> 1, den |-> 1]
    /\ grid = [c \in Cells |-> Off]
    /\ loops = <<>>
    /\ upc = "idle"
    /\ InitExt

Tables == <<sessions, events, led_changes, patterns>>

vars == <<sessions, events, led_changes, patterns, current_session_id,
          session_start_time, now, last_call, calls, overlap, wpc, wloc, cpc, cloc,
          is_playing, is_paused, playback_speed, grid, loops, upc,
          active_animations, animation_stop_flags, anim_lock, athreads, apc,
          mode, current_player, tcall, synth, config_history, notified,
          output_file>>

\* ------------------------------------------------------------------ one caller
\* the id of the oldest row of the table
firstrowid(tbl) == 1

\* cursor.lastrowid after the INSERT (line 144)
lastrowid(tbl) == Len(tbl)

\* start_session, as one call
StartSession(profile) ==
    /\ session_start_time' = now
    /\ sessions' = InsertRow(sessions, SessionRow(sessions, now, profile))
    /\ current_session_id' = lastrowid(sessions')
    /\ last_call' = [op |-> "start_session", result |-> "ok"]
    /\ overlap' = FALSE
    /\ UNCHANGED <<events, led_changes, patterns, now, calls>>

\* a record call that tests nothing and always goes on to write
HasSessionAlways(sid) == TRUE

\* the first test of record_led_change and of _record_event
HasSession(sid) == sid # NoSession

\* _record_event, as one call; a recorded call comes gap ticks after the
\* previous call
RecordEvent(type, x, y, gap) ==
    /\ IF ~HasSession(current_session_id)
       THEN /\ last_call' = [op |-> type, result |-> "dropped"]
            /\ UNCHANGED <<events, calls, now>>
       ELSE /\ now' = now + gap
            /\ events' = InsertRow(events,
                   EventRow(events, current_session_id, now',
                            now' - session_start_time, type, x, y))
            /\ last_call' = [op |-> type, result |-> "ok"]
            /\ calls' = [calls EXCEPT ![current_session_id] = @ + 1]
    /\ UNCHANGED <<sessions, led_changes, patterns, current_session_id,
                   session_start_time, overlap>>

record_button_press(x, y, gap) == RecordEvent("button_press", x, y, gap)

record_button_release(x, y, gap) == RecordEvent("button_release", x, y, gap)

\* record_led_change, as one call
record_led_change(x, y, color) ==
    /\ IF ~HasSession(current_session_id)
       THEN /\ last_call' = [op |-> "led_change", result |-> "dropped"]
            /\ UNCHANGED led_changes
       ELSE /\ led_changes' = InsertRow(led_changes,
                   LedRow(led_changes, current_session_id, now,
                          now - session_start_time, x, y, color))
            /\ last_call' = [op |-> "led_change", result |-> "ok"]
    /\ UNCHANGED <<sessions, events, patterns, current_session_id,
                   session_start_time, now, calls, overlap>>

\* the UPDATE of end_session
EndedRow(row, end_time, duration, total_events) ==
    [row EXCEPT !.end_time = end_time, !.duration = duration,
                !.total_events = total_events]

\* an UPDATE with no WHERE clause
UpdateEverySession(rows, sid, end_time, duration, total_events) ==
    [i \in 1..Len(rows) |-> EndedRow(rows[i], end_time, duration, total_events)]

\* UPDATE sessions SET ... WHERE id = ? (lines 169-173)
UpdateSession(rows, sid, end_time, duration, total_events) ==
    [rows EXCEPT ![sid] = EndedRow(@, end_time, duration, total_events)]

\* end_session, as one call
EndSession ==
    /\ IF current_session_id = NoSession
       THEN /\ last_call' = [op |-> "end_session", result |-> "no session"]
            /\ UNCHANGED storeVars
       ELSE LET sid == current_session_id
                end_time == now
                duration == end_time - session_start_time
                total_events == Len(RowsOf(events, sid))
            IN  /\ sessions' = UpdateSession(sessions, sid, end_time, duration,
                                              total_events)
                /\ patterns' = patterns \o detect_patterns(events, sid)
                /\ current_session_id' = NoSession
                /\ session_start_time' = NULL
                /\ last_call' = [op |-> "end_session", result |-> "ok"]
                /\ UNCHANGED <<events, led_changes>>
    /\ UNCHANGED <<now, calls, overlap>>

\* ------------------------------------------------------------------ Spec
\* one caller at a time: sessions are started, recorded into and ended
DoStartSession ==
    /\ Len(sessions) < MaxSessions
    /\ \E p \in Profiles : StartSession(p)
    /\ UNCHANGED <<writerVars, ctlVars, extVars, playVars>>

DoPress ==
    /\ current_session_id = NoSession \/ Len(events) + Len(led_changes) < MaxEvents
    /\ \E b \in Buttons, g \in LifeGaps : record_button_press(b[1], b[2], g)
    /\ UNCHANGED <<writerVars, ctlVars, extVars, playVars>>

DoRelease ==
    /\ current_session_id = NoSession \/ Len(events) + Len(led_changes) < MaxEvents
    /\ \E b \in Buttons, g \in LifeGaps : record_button_release(b[1], b[2], g)
    /\ UNCHANGED <<writerVars, ctlVars, extVars, playVars>>

DoLedChange ==
    /\ current_session_id = NoSession \/ Len(events) + Len(led_changes) < MaxEvents
    /\ \E b \in Buttons, c \in LifeColors : record_led_change(b[1], b[2], c)
    /\ UNCHANGED <<writerVars, ctlVars, extVars, playVars>>

DoEndSession ==
    /\ EndSession
    /\ UNCHANGED <<writerVars, ctlVars, extVars, playVars>>

Next == DoStartSession \/ DoPress \/ DoRelease \/ DoLedChange \/ DoEndSession

Spec == Init /\ [][Next]_vars

\* ------------------------------------------------------------------ SpecDetect
\* one session of presses and releases, ended and analysed
DetectStart ==
    /\ sessions = <<>>
    /\ StartSession("A")
    /\ UNCHANGED <<writerVars, ctlVars, extVars, playVars>>

DetectPress ==
    /\ current_session_id = NoSession \/ Len(events) < MaxDetectEvents
    /\ \E b \in Buttons, g \in Gaps : record_button_press(b[1], b[2], g)
    /\ UNCHANGED <<writerVars, ctlVars, extVars, playVars>>

DetectRelease ==
    /\ current_session_id = NoSession \/ Len(events) < MaxDetectEvents
    /\ \E b \in Buttons, g \in Gaps : record_button_release(b[1], b[2], g)
    /\ UNCHANGED <<writerVars, ctlVars, extVars, playVars>>

DetectEnd ==
    /\ EndSession
    /\ UNCHANGED <<writerVars, ctlVars, extVars, playVars>>

NextDetect == DetectStart \/ DetectPress \/ DetectRelease \/ DetectEnd

SpecDetect == Init /\ [][NextDetect]_vars

\* ------------------------------------------------------------------ SpecRepeat
\* one session of presses on several buttons, 0.1 s apart, ended and analysed
RepeatStart ==
    /\ sessions = <<>>
    /\ StartSession("A")
    /\ UNCHANGED <<writerVars, ctlVars, extVars, playVars>>

RepeatPress ==
    /\ current_session_id # NoSession
    /\ Len(events) < MaxRepeatPresses
    /\ \E b \in RepeatButtons : record_button_press(b[1], b[2], 1)
    /\ UNCHANGED <<writerVars, ctlVars, extVars, playVars>>

RepeatEnd ==
    /\ current_session_id # NoSession
    /\ EndSession
    /\ UNCHANGED <<writerVars, ctlVars, extVars, playVars>>

NextRepeat == RepeatStart \/ RepeatPress \/ RepeatEnd

SpecRepeat == Init /\ [][NextRepeat]_vars

\* ------------------------------------------------------------------ concurrent callers
\* A thread in _record_event or record_led_change.  Its steps are the
\* statements that read or write shared state:
\*   idle  --W_Check-->  stamp  --W_Stamp-->  args  --W_Args-->  insert
\*         --W_Insert-->  idle
EventKinds == {"button_press", "button_release"}

InFlight == {w \in Writers : wpc[w] # "idle"}

Return(w, result) ==
    /\ wpc' = [wpc EXCEPT ![w] = "idle"]
    /\ wloc' = [wloc EXCEPT ![w] = [kind |-> "none"]]
    /\ last_call' = [op |-> wloc[w].kind, result |-> result]

\* the call and its test of current_session_id (lines 201-202, 225-227)
W_Check(w, kind) ==
    /\ wpc[w] = "idle"
    /\ IF ~HasSession(current_session_id)
       THEN /\ last_call' = [op |-> kind, result |-> "dropped"]
            /\ UNCHANGED <<wpc, wloc>>
       ELSE /\ Len(events) + Len(led_changes) + Cardinality(InFlight) < MaxRows
            /\ wpc' = [wpc EXCEPT ![w] = "stamp"]
            /\ wloc' = [wloc EXCEPT ![w] = [kind |-> kind]]
            /\ UNCHANGED last_call
    /\ UNCHANGED <<storeVars, now, ctlVars, extVars, playVars>>

\* history: one more call against the current session, and whether it
\* overlaps a call that is still running
CountCall ==
    IF current_session_id = NoSession
    THEN UNCHANGED <<calls, overlap>>
    ELSE /\ calls' = [calls EXCEPT ![current_session_id] = @ + 1]
         /\ overlap' = (overlap \/ InFlight # {})

\* timestamp = time.time(); relative_time = timestamp - self.session_start_time
\* (lines 207-208, 232-233); None as the subtrahend raises TypeError
W_Stamp(w) ==
    /\ wpc[w] = "stamp"
    /\ IF session_start_time = NULL
       THEN Return(w, "raised")
       ELSE /\ wpc' = [wpc EXCEPT ![w] = "args"]
            /\ wloc' = [wloc EXCEPT ![w] =
                            [kind |-> @.kind, timestamp |-> now,
                             relative_time |-> now - session_start_time]]
            /\ UNCHANGED last_call
    /\ UNCHANGED <<storeVars, now, calls, overlap, ctlVars, extVars, playVars>>

\* the parameter tuple of the INSERT reads self.current_session_id
\* (lines 214, 242)
W_Args(w) ==
    /\ wpc[w] = "args"
    /\ wpc' = [wpc EXCEPT ![w] = "insert"]
    /\ wloc' = [wloc EXCEPT ![w] =
                    [kind |-> @.kind, timestamp |-> @.timestamp,
                     relative_time |-> @.relative_time,
                     sid |-> current_session_id]]
    /\ UNCHANGED <<storeVars, now, last_call, calls, overlap, ctlVars, extVars, playVars>>

\* a write that starts from the table as it was and replaces its last row
InsertEventLost(tbl, row) ==
    IF tbl = <<>> THEN <<row>> ELSE [tbl EXCEPT ![Len(tbl)] = row]

\* INSERT INTO events ... ; conn.commit() of one writer's connection
InsertEvent(tbl, row) == InsertRow(tbl, row)

\* cursor.execute(INSERT ...); conn.commit() (lines 210-218, 237-247); a
\* session_id of None violates NOT NULL and raises IntegrityError
W_Insert(w) ==
    /\ wpc[w] = "insert"
    /\ IF wloc[w].sid = NoSession
       THEN /\ Return(w, "raised")
            /\ UNCHANGED <<events, led_changes>>
       ELSE /\ Return(w, "ok")
            /\ IF wloc[w].kind \in EventKinds
               THEN /\ events' = InsertEvent(events,
                           EventRow(events, wloc[w].sid, wloc[w].timestamp,
                                    wloc[w].relative_time, wloc[w].kind, 0, 0))
                    /\ UNCHANGED led_changes
               ELSE /\ led_changes' = InsertRow(led_changes,
                           LedRow(led_changes, wloc[w].sid, wloc[w].timestamp,
                                  wloc[w].relative_time, 0, 0, <<255, 0, 0>>))
                    /\ UNCHANGED events
    /\ UNCHANGED <<sessions, patterns, current_session_id, session_start_time,
                   now, calls, overlap, ctlVars, extVars, playVars>>

\* time passes
Tick ==
    /\ now < Epoch + MaxTicks
    /\ now' = now + 1
    /\ UNCHANGED <<storeVars, last_call, calls, overlap, writerVars, ctlVars, extVars, playVars>>

\* ------------------------------------------------------------------ SpecWriters
\* threads record concurrently; start_session and end_session run only
\* while no record call is in progress
WritersStart ==
    /\ InFlight = {}
    /\ Len(sessions) < MaxSessions
    /\ StartSession("A")
    /\ UNCHANGED <<writerVars, ctlVars, extVars, playVars>>

WritersEnd ==
    /\ InFlight = {}
    /\ EndSession
    /\ UNCHANGED <<writerVars, ctlVars, extVars, playVars>>

WritersCheck == \E w \in Writers, k \in EventKinds : W_Check(w, k) /\ CountCall

WritersStamp == \E w \in Writers : W_Stamp(w)

WritersArgs == \E w \in Writers : W_Args(w)

WritersInsert == \E w \in Writers : W_Insert(w)

NextWriters ==
    \/ WritersStart
    \/ WritersEnd
    \/ WritersCheck
    \/ WritersStamp
    \/ WritersArgs
    \/ WritersInsert
    \/ Tick

SpecWriters == Init /\ [][NextWriters]_vars

\* ------------------------------------------------------------------ SpecConc
\* The thread that calls start_session and end_session, statement by
\* statement, while other threads record.
\*   start_session: idle --C_Start--> s_insert --C_StartInsert--> idle
\*   end_session:   idle --C_End--> e_count --C_EndCount--> e_update
\*                  --C_EndUpdate--> e_detect --C_EndDetect--> e_clear_id
\*                  --C_EndClearId--> e_clear_time --C_EndClearTime--> idle

\* self.session_start_time = time.time() (line 137)
C_Start(profile) ==
    /\ cpc = "idle"
    /\ Len(sessions) < MaxSessions
    /\ session_start_time' = now
    /\ cpc' = "s_insert"
    /\ cloc' = [op |-> "start_session", profile |-> profile]
    /\ UNCHANGED <<sessions, events, led_changes, patterns, current_session_id,
                   now, last_call, calls, overlap, writerVars, playVars, extVars>>

\* INSERT INTO sessions; self.current_session_id = cursor.lastrowid; commit
\* (lines 139-146)
C_StartInsert ==
    /\ cpc = "s_insert"
    /\ sessions' = InsertRow(sessions,
                        SessionRow(sessions, session_start_time, cloc.profile))
    /\ current_session_id' = lastrowid(sessions')
    /\ cpc' = "idle"
    /\ cloc' = [op |-> "none"]
    /\ last_call' = [op |-> "start_session", result |-> "ok"]
    /\ UNCHANGED <<events, led_changes, patterns, session_start_time, now,
                   calls, overlap, writerVars, playVars, extVars>>

\* the test of line 153, then end_time and duration (lines 160-161)
C_End ==
    /\ cpc = "idle"
    /\ IF current_session_id = NoSession
       THEN /\ last_call' = [op |-> "end_session", result |-> "no session"]
            /\ UNCHANGED ctlVars
       ELSE /\ cpc' = "e_count"
            /\ cloc' = [op |-> "end_session", end_time |-> now,
                         duration |-> now - session_start_time]
            /\ UNCHANGED last_call
    /\ UNCHANGED <<storeVars, now, calls, overlap, writerVars, playVars, extVars>>

\* SELECT COUNT(*) FROM events WHERE session_id = ? (lines 164-167)
C_EndCount ==
    /\ cpc = "e_count"
    /\ cpc' = "e_update"
    /\ cloc' = [op |-> "end_session", end_time |-> cloc.end_time,
                 duration |-> cloc.duration,
                 total_events |-> Len(RowsOf(events, current_session_id))]
    /\ UNCHANGED <<storeVars, now, last_call, calls, overlap, writerVars, playVars, extVars>>

\* UPDATE sessions ... WHERE id = ?; commit (lines 169-176)
C_EndUpdate ==
    /\ cpc = "e_update"
    /\ sessions' = UpdateSession(sessions, current_session_id, cloc.end_time,
                                  cloc.duration, cloc.total_events)
    /\ cpc' = "e_detect"
    /\ UNCHANGED <<events, led_changes, patterns, current_session_id,
                   session_start_time, now, last_call, calls, overlap,
                   writerVars, cloc, playVars, extVars>>

\* self.detect_patterns(self.current_session_id) (line 181)
C_EndDetect ==
    /\ cpc = "e_detect"
    /\ patterns' = patterns \o detect_patterns(events, current_session_id)
    /\ cpc' = "e_clear_id"
    /\ UNCHANGED <<sessions, events, led_changes, current_session_id,
                   session_start_time, now, last_call, calls, overlap,
                   writerVars, cloc, playVars, extVars>>

\* self.current_session_id = None (line 183)
C_EndClearId ==
    /\ cpc = "e_clear_id"
    /\ current_session_id' = NoSession
    /\ cpc' = "e_clear_time"
    /\ UNCHANGED <<sessions, events, led_changes, patterns, session_start_time,
                   now, last_call, calls, overlap, writerVars, cloc, playVars, extVars>>

\* self.session_start_time = None (line 184)
C_EndClearTime ==
    /\ cpc = "e_clear_time"
    /\ session_start_time' = NULL
    /\ cpc' = "idle"
    /\ cloc' = [op |-> "none"]
    /\ last_call' = [op |-> "end_session", result |-> "ok"]
    /\ UNCHANGED <<sessions, events, led_changes, patterns, current_session_id,
                   now, calls, overlap, writerVars, playVars, extVars>>

ConcKinds == {"button_press", "led_change"}

\* the callback thread that races the thread that starts and ends sessions
ConcWriters == {1}

ConcStart == \E p \in {"A"} : C_Start(p)

ConcCheck ==
    \E w \in ConcWriters, k \in ConcKinds : W_Check(w, k) /\ UNCHANGED <<calls, overlap>>

ConcStamp == \E w \in ConcWriters : W_Stamp(w)

ConcArgs == \E w \in ConcWriters : W_Args(w)

ConcInsert == \E w \in ConcWriters : W_Insert(w)

NextConc ==
    \/ ConcStart
    \/ C_StartInsert
    \/ C_End
    \/ C_EndCount
    \/ C_EndUpdate
    \/ C_EndDetect
    \/ C_EndClearId
    \/ C_EndClearTime
    \/ ConcCheck
    \/ ConcStamp
    \/ ConcArgs
    \/ ConcInsert
    \/ Tick

SpecConc == Init /\ [][NextConc]_vars

\* ------------------------------------------------------------------ SpecRead
\* the table after a DELETE of the session's rows
after_delete(tbl, sid) == SelectSeq(tbl, LAMBDA r : r.session_id # sid)

\* the table after the SELECT of a read: no statement of lines 300-315
\* writes and nothing is committed
after_select(tbl, sid) == tbl

\* a call of get_session_events; history: last_call keeps the list returned
GetSessionEvents(sid) ==
    /\ events' = after_select(events, sid)
    /\ last_call' = [op |-> "get_session_events", result |-> "ok", sid |-> sid,
                     rows |-> get_session_events(events, sid)]
    /\ UNCHANGED <<sessions, led_changes, patterns, current_session_id,
                   session_start_time, now, calls, overlap, writerVars, ctlVars, extVars,
                   playVars>>

\* The threads of SpecWriters and a caller that reads the events of the
\* latest session.
NextRead ==
    \/ NextWriters
    \/ sessions # <<>> /\ GetSessionEvents(Len(sessions))

SpecRead == Init /\ [][NextRead]_vars

\* ------------------------------------------------------------------ SpecTie
\* Two callback threads record presses while another thread starts sessions.
NextTie ==
    \/ ConcStart
    \/ C_StartInsert
    \/ \E w \in Writers : W_Check(w, "button_press") /\ UNCHANGED <<calls, overlap>>
    \/ WritersStamp
    \/ WritersArgs
    \/ WritersInsert
    \/ /\ now < Epoch + MaxTieTicks
       /\ now' = now + 1
       /\ UNCHANGED <<storeVars, last_call, calls, overlap, writerVars, ctlVars, extVars, playVars>>

SpecTie == Init /\ [][NextTie]_vars

\* ------------------------------------------------------------------ SpecLate
\* The threads of SpecConc, from the moment a session that began more than
\* 3.0 s ago holds two presses, 0.1 s apart, and a third record_button_press
\* has passed its session test.
InitLate ==
    LET start == Epoch - (PauseGap + 2)
        first == InsertRow(<<>>, EventRow(<<>>, 1, start, 0, "button_press", 0, 0))
    IN  /\ sessions = InsertRow(<<>>, SessionRow(<<>>, start, "A"))
        /\ events = InsertRow(first, EventRow(first, 1, start + 1, 1, "button_press", 0, 0))
        /\ led_changes = <<>>
        /\ patterns = <<>>
        /\ current_session_id = 1
        /\ session_start_time = start
        /\ now = Epoch
        /\ last_call = [op |-> "button_press", result |-> "ok"]
        /\ calls = [s \in 1..(MaxSessions + 1) |-> 0]
        /\ overlap = FALSE
        /\ wpc = [w \in Writers |-> IF w \in ConcWriters THEN "stamp" ELSE "idle"]
        /\ wloc = [w \in Writers |-> IF w \in ConcWriters
                                      THEN [kind |-> "button_press"]
                                      ELSE [kind |-> "none"]]
        /\ cpc = "idle"
        /\ cloc = [op |-> "none"]
        /\ is_playing = FALSE
        /\ is_paused = FALSE
        /\ playback_speed = [num |-> 1, den |-> 1]
        /\ grid = [c \in Cells |-> Off]
        /\ loops = <<>>
        /\ upc = "idle"
        /\ InitExt

SpecLate == InitLate /\ [][NextConc]_vars

\* ------------------------------------------------------------------ playback_engine.py
Speeds == {[num |-> 1, den |-> 1], [num |-> 2, den |-> 1]}

Min(a, b) == IF a <= b THEN a ELSE b

Max(a, b) == IF a >= b THEN a ELSE b

\* timeline.sort(key=lambda x: x['time']): list.sort is stable
SortByTime(items) ==
    LET ps == SortPairs([i \in 1..Len(items) |-> <<items[i].time, items[i]>>])
    IN  [i \in 1..Len(ps) |-> ps[i][2]]

Item(time, type, data) == [time |-> time, type |-> type, data |-> data]

\* pattern_markers: a pattern_start and a pattern_end per pattern
PatternMarkers(pats) ==
    [i \in 1..(2 * Len(pats)) |->
        IF i % 2 = 1
        THEN Item(pats[(i + 1) \div 2].start_time, "pattern_start", pats[(i + 1) \div 2])
        ELSE Item(pats[i \div 2].end_time, "pattern_end", pats[i \div 2])]

\* a merge that appends the pattern markers and does not sort again
MergeTimelineAppended(evs, leds, pats) ==
    SortByTime(
        [i \in 1..Len(evs) |-> Item(evs[i].relative_time, "event", evs[i])]
        \o [i \in 1..Len(leds) |-> Item(leds[i].relative_time, "led", leds[i])])
    \o PatternMarkers(pats)

\* the timeline _playback_loop builds (lines 110-146)
MergeTimeline(evs, leds, pats) ==
    LET first == SortByTime(
                    [i \in 1..Len(evs) |-> Item(evs[i].relative_time, "event", evs[i])]
                    \o [i \in 1..Len(leds) |-> Item(leds[i].relative_time, "led", leds[i])])
    IN  SortByTime(first \o PatternMarkers(pats))

\* a _set_led that brightens whatever it draws
set_led_color_bright(color, is_pattern) ==
    [i \in 1..3 |-> Min(255, color[i] + 50)]

\* a _set_led that ignores is_pattern
set_led_color_plain(color, is_pattern) == color

\* the colour _set_led writes (lines 202-204)
set_led_color(color, is_pattern) ==
    IF is_pattern THEN [i \in 1..3 |-> Min(255, color[i] + 50)] ELSE color

\* clear_grid
ClearedGrid == [c \in Cells |-> Off]

\* (time.time() - start_time) * self.playback_speed >= item['time']
Due(start_time, speed, time) == (now - start_time) * speed.num >= time * speed.den

Alive(l) == loops[l].pc # "dead"

playback_thread == Len(loops)

NewLoop(session_id, show_patterns, evs, leds, pats) ==
    [pc |-> "begin", evs |-> evs, leds |-> leds, pats |-> pats,
     timeline |-> <<>>, idx |-> 1, start_time |-> NULL, current_pattern |-> <<>>,
     \* history
     sid |-> session_id, show |-> show_patterns, exit |-> "none", active |-> 0, writes |-> <<>>,
     stopped |-> FALSE]

\* play_session (lines 52-104)
\* a guard that lets every call through
AlreadyPlayingNever(playing) == FALSE

\* if self.is_playing: return (lines 63-65)
AlreadyPlaying(playing) == playing

PlaySession(session_id, speed, show_patterns) ==
    /\ upc = "idle"
    /\ IF AlreadyPlaying(is_playing)
       THEN UNCHANGED playVars                       \* "Already playing"
       ELSE IF get_session(sessions, session_id) = <<>>
       THEN UNCHANGED playVars                       \* "Session not found"
       ELSE LET evs == get_session_events(events, session_id)
                leds == get_session_led_changes(led_changes, session_id)
                pats == IF show_patterns
                        THEN get_session_patterns(patterns, session_id)
                        ELSE <<>>
            IN  IF evs = <<>> /\ leds = <<>>
                THEN UNCHANGED playVars               \* "No events to replay"
                ELSE /\ playback_speed' = speed
                     /\ is_playing' = TRUE
                     /\ is_paused' = FALSE
                     /\ loops' = Append(loops,
                                      NewLoop(session_id, show_patterns, evs, leds, pats))
                     /\ UNCHANGED <<grid, upc>>
    /\ UNCHANGED <<storeVars, now, last_call, calls, overlap, writerVars, ctlVars, extVars>>

\* start_time = time.time() and the merge (lines 108-149)
L_Begin(l) ==
    /\ loops[l].pc = "begin"
    /\ loops' = [loops EXCEPT ![l] =
                    [@ EXCEPT !.pc = "for",
                              !.start_time = now,
                              !.timeline = MergeTimeline(loops[l].evs, loops[l].leds,
                                                          loops[l].pats),
                              !.evs = <<>>, !.leds = <<>>, !.pats = <<>>]]
    /\ UNCHANGED <<storeVars, now, last_call, calls, overlap, writerVars, ctlVars, extVars,
                   is_playing, is_paused, playback_speed, grid, upc>>

\* for item in timeline: if not self.is_playing: break (lines 152-154)
L_For(l) ==
    /\ loops[l].pc = "for"
    /\ loops' = [loops EXCEPT ![l].pc =
                    IF loops[l].idx > Len(loops[l].timeline) \/ ~is_playing
                    THEN "finally" ELSE "wait"]
    /\ UNCHANGED <<storeVars, now, last_call, calls, overlap, writerVars, ctlVars, extVars,
                   is_playing, is_paused, playback_speed, grid, upc>>

\* why the loop of lines 157-161 is left, or "none" while it sleeps on
WaitExit(l) ==
    IF ~is_playing THEN "stopped"
    ELSE IF is_paused THEN "paused"
    ELSE IF Due(loops[l].start_time, playback_speed,
                loops[l].timeline[loops[l].idx].time) THEN "due"
    ELSE "none"

\* while self.is_playing and not self.is_paused: ... (lines 157-161)
L_Wait(l) ==
    /\ loops[l].pc = "wait"
    /\ WaitExit(l) # "none"
    /\ loops' = [loops EXCEPT ![l] = [@ EXCEPT !.pc = "check", !.exit = WaitExit(l)]]
    /\ UNCHANGED <<storeVars, now, last_call, calls, overlap, writerVars, ctlVars, extVars,
                   is_playing, is_paused, playback_speed, grid, upc>>

\* the loop's locals and the grid after the item is handled (lines 167-189)
ApplyItem(lp, item) ==
    LET color == set_led_color(<<item.data.color_r, item.data.color_g, item.data.color_b>>,
                               lp.current_pattern # <<>>)
    IN  [loop |-> [lp EXCEPT
                      !.current_pattern =
                          IF item.type = "pattern_start" THEN <<item.data>>
                          ELSE IF item.type = "pattern_end" THEN <<>>
                          ELSE @,
                      !.writes =
                          IF item.type = "led"
                          THEN Append(@, <<item.data.x, item.data.y, color>>)
                          ELSE @],
         grid |-> IF item.type = "pattern_start" THEN [c \in Cells |-> White]
                  ELSE IF item.type = "led"
                  THEN [grid EXCEPT ![<<item.data.x, item.data.y>>] = color]
                  ELSE grid]

\* if not self.is_playing: break; else handle the item (lines 163-189)
L_Check(l) ==
    /\ loops[l].pc = "check"
    /\ IF ~is_playing
       THEN /\ loops' = [loops EXCEPT ![l].pc = "finally"]
            /\ UNCHANGED grid
       ELSE LET item == loops[l].timeline[loops[l].idx]
                done == ApplyItem(loops[l], item)
            IN  /\ loops' = [loops EXCEPT ![l] =
                        [done.loop EXCEPT !.pc = "for", !.idx = @ + 1]]
                /\ grid' = done.grid
    /\ UNCHANGED <<storeVars, now, last_call, calls, overlap, writerVars, ctlVars, extVars,
                   is_playing, is_paused, playback_speed, upc>>

\* a finally block that leaves is_playing as it is
L_FinallyStaysPlaying(l) ==
    /\ loops[l].pc = "finally"
    /\ loops' = [loops EXCEPT ![l].pc = "clear"]
    /\ UNCHANGED <<storeVars, now, last_call, calls, overlap, writerVars, ctlVars, extVars,
                   is_playing, is_paused, playback_speed, grid, upc>>

\* finally: self.is_playing = False (line 197)
L_Finally(l) ==
    /\ loops[l].pc = "finally"
    /\ is_playing' = FALSE
    /\ loops' = [loops EXCEPT ![l].pc = "clear"]
    /\ UNCHANGED <<storeVars, now, last_call, calls, overlap, writerVars, ctlVars, extVars,
                   is_paused, playback_speed, grid, upc>>

\* a thread that has ended: its locals are gone
DeadLoop == [NewLoop(NoSession, FALSE, <<>>, <<>>, <<>>) EXCEPT !.pc = "dead"]

\* finally: self.clear_grid() (line 198); the thread ends
L_Clear(l) ==
    /\ loops[l].pc = "clear"
    /\ grid' = ClearedGrid
    /\ loops' = [loops EXCEPT ![l] = DeadLoop]
    /\ UNCHANGED <<storeVars, now, last_call, calls, overlap, writerVars, ctlVars, extVars,
                   is_playing, is_paused, playback_speed, upc>>

\* pause (lines 222-225)
Pause ==
    /\ upc = "idle"
    /\ is_paused' = TRUE
    /\ UNCHANGED <<storeVars, now, last_call, calls, overlap, writerVars, ctlVars, extVars,
                   is_playing, playback_speed, grid, loops, upc>>

\* resume (lines 227-230)
Resume ==
    /\ upc = "idle"
    /\ is_paused' = FALSE
    /\ UNCHANGED <<storeVars, now, last_call, calls, overlap, writerVars, ctlVars, extVars,
                   is_playing, playback_speed, grid, loops, upc>>

\* stop: self.is_playing = False (line 234), then the join
Stop ==
    /\ upc = "idle"
    /\ is_playing' = FALSE
    /\ upc' = "join"
    /\ UNCHANGED <<storeVars, now, last_call, calls, overlap, writerVars, ctlVars, extVars,
                   is_paused, playback_speed, grid, loops>>

\* stop: join returned (line 236), clear_grid (line 237)
StopJoined ==
    /\ upc = "join"
    /\ IF playback_thread = 0 THEN TRUE ELSE ~Alive(playback_thread)
    /\ grid' = ClearedGrid
    /\ upc' = "idle"
    /\ UNCHANGED <<storeVars, now, last_call, calls, overlap, writerVars, ctlVars, extVars,
                   is_playing, is_paused, playback_speed, loops>>

\* the history of PlayTick, for d ticks
Elapsed(d) ==
    [l \in 1..Len(loops) |->
        IF loops[l].pc \notin {"begin", "dead"} /\ ~is_paused
        THEN [loops[l] EXCEPT !.active = @ + d]
        ELSE loops[l]]

\* stop: join(timeout=1.0) returns after 1.0 s with the thread still alive
\* (line 236), clear_grid (line 237); history: stop has returned for the
\* loops alive at this moment
StopTimedOut ==
    /\ upc = "join"
    /\ IF playback_thread = 0 THEN FALSE ELSE Alive(playback_thread)
    /\ now < sessions[1].end_time + MaxPlayTicks
    /\ now' = now + JoinTimeout
    /\ loops' = [l \in 1..Len(loops) |->
                    IF Alive(l)
                    THEN [Elapsed(JoinTimeout)[l] EXCEPT !.stopped = TRUE]
                    ELSE loops[l]]
    /\ grid' = ClearedGrid
    /\ upc' = "idle"
    /\ UNCHANGED <<storeVars, last_call, calls, overlap, writerVars, ctlVars, extVars,
                   is_playing, is_paused, playback_speed>>

\* 0.25 <= speed <= 4.0 (line 242)
ValidSpeed(speed) == speed.den <= 4 * speed.num /\ speed.num <= 4 * speed.den

\* set_speed (lines 240-246)
SetSpeed(speed) ==
    /\ upc = "idle"
    /\ playback_speed' = IF ValidSpeed(speed) THEN speed ELSE playback_speed
    /\ UNCHANGED <<storeVars, now, last_call, calls, overlap, writerVars, ctlVars, extVars,
                   is_playing, is_paused, grid, loops, upc>>

\* time passes; history: a loop's active time grows while it is not paused
PlayTick ==
    /\ now < sessions[1].end_time + MaxPlayTicks
    /\ now' = now + 1
    /\ loops' = Elapsed(1)
    /\ UNCHANGED <<storeVars, last_call, calls, overlap, writerVars, ctlVars, extVars,
                   is_playing, is_paused, playback_speed, grid, upc>>

\* ------------------------------------------------------------------ SpecPlay
\* A store that holds one recorded and ended session: n presses 0.1 s apart
\* and a release, k LED changes 0.1 s apart, and the patterns detect_patterns
\* found in them.
RECURSIVE RecordedEvents(_, _)
RecordedEvents(n, i) ==
    IF i = 0 THEN <<>>
    ELSE LET before == RecordedEvents(n, i - 1)
         IN  InsertRow(before,
                 IF i <= n
                 THEN EventRow(before, 1, Epoch + i - 1, i - 1, "button_press", 0, 0)
                 ELSE EventRow(before, 1, Epoch + n, n, "button_release", 0, 0))

RECURSIVE RecordedLeds(_)
RecordedLeds(k) ==
    IF k = 0 THEN <<>>
    ELSE LET before == RecordedLeds(k - 1)
         IN  InsertRow(before,
                 IF k % 2 = 1
                 THEN LedRow(before, 1, Epoch + k - 1, k - 1, 0, 0, <<255, 0, 0>>)
                 ELSE LedRow(before, 1, Epoch + k - 1, k - 1, 1, 0, <<0, 210, 40>>))

RecordedStore(n, k) ==
    LET evs == RecordedEvents(n, IF n = 0 THEN 0 ELSE n + 1)
        end_time == Epoch + Max(n, k) + 1
    IN  /\ sessions = <<EndedRow(SessionRow(<<>>, Epoch, "A"),
                                 end_time, end_time - Epoch, Len(evs))>>
        /\ events = evs
        /\ led_changes = RecordedLeds(k)
        /\ patterns = detect_patterns(evs, 1)
        /\ current_session_id = NoSession
        /\ session_start_time = NULL
        /\ now = end_time
        /\ last_call = [op |-> "end_session", result |-> "ok"]
        /\ calls = [s \in 1..(MaxSessions + 1) |-> 0]
        /\ overlap = FALSE
        /\ wpc = [w \in Writers |-> "idle"]
        /\ wloc = [w \in Writers |-> [kind |-> "none"]]
        /\ cpc = "idle"
        /\ cloc = [op |-> "none"]
        /\ is_playing = FALSE
        /\ is_paused = FALSE
        /\ playback_speed = [num |-> 1, den |-> 1]
        /\ grid = [c \in Cells |-> Off]
        /\ loops = <<>>
        /\ upc = "idle"
        /\ InitExt

InitPlay == \E n \in {0, MaxPlayPresses}, k \in {0, MaxPlayLeds} : RecordedStore(n, k)

PlayStart ==
    /\ is_playing \/ Len(loops) < MaxPlays
    /\ \E sid \in 1..2, sp \in Speeds, show \in BOOLEAN : PlaySession(sid, sp, show)

LoopBegin == \E l \in 1..Len(loops) : L_Begin(l)

LoopFor == \E l \in 1..Len(loops) : L_For(l)

LoopWait == \E l \in 1..Len(loops) : L_Wait(l)

LoopCheck == \E l \in 1..Len(loops) : L_Check(l)

LoopFinally == \E l \in 1..Len(loops) : L_Finally(l)

LoopClear == \E l \in 1..Len(loops) : L_Clear(l)

NextPlay ==
    \/ PlayStart
    \/ LoopBegin
    \/ LoopFor
    \/ LoopWait
    \/ LoopCheck
    \/ LoopFinally
    \/ LoopClear
    \/ Pause
    \/ Resume
    \/ Stop
    \/ StopJoined
    \/ PlayTick

SpecPlay == InitPlay /\ [][NextPlay]_vars

\* ------------------------------------------------------------------ SpecStop
\* The controls of one engine over a short recorded session: play_session
\* may be called again once is_playing is False, stop may time out in its
\* join, and the speeds passed include one above 4.0.
InitStop == RecordedStore(1, MaxPlayLeds)

NextStop ==
    \/ /\ is_playing \/ Len(loops) < MaxReplays
       /\ \E sp \in {[num |-> 1, den |-> 1], [num |-> 5, den |-> 1]} :
              PlaySession(1, sp, FALSE)
    \/ \E sp \in {[num |-> 2, den |-> 1], [num |-> 5, den |-> 1]} : SetSpeed(sp)
    \/ LoopBegin
    \/ LoopFor
    \/ LoopWait
    \/ LoopCheck
    \/ LoopFinally
    \/ LoopClear
    \/ Pause
    \/ Resume
    \/ Stop
    \/ StopJoined
    \/ StopTimedOut
    \/ PlayTick

SpecStop == InitStop /\ [][NextStop]_vars

\* ------------------------------------------------------------------ claims: playback
\* the step in which loop l handles the item at its index (lines 167-189)
Applies(l) ==
    /\ l \in 1..Len(loops)
    /\ loops[l].pc = "check"
    /\ loops'[l].pc = "for"

\* C1: while playback is paused the loop applies no timeline item: an item is
\* never applied by a loop that left its wait because it saw the pause flag
\* set, with the flag still set when the item is applied.
C1_PausedAppliesNothing ==
    [][\A l \in 1..Len(loops) :
          Applies(l) => ~(loops[l].exit = "paused" /\ is_paused)]_vars

\* C2: every timeline item is applied only when activeElapsed * speed >=
\* item.time, activeElapsed being the time spent unpaused since the loop began.
C2_AppliedOnlyWhenDue ==
    [][\A l \in 1..Len(loops) :
          Applies(l) =>
              loops[l].active * playback_speed.num
                  >= loops[l].timeline[loops[l].idx].time * playback_speed.den]_vars

Priority(type) ==
    CASE type = "pattern_start" -> 0
      [] type = "led" -> 1
      [] type = "event" -> 2
      [] type = "pattern_end" -> 3

\* C3: in the merged timeline, items of equal time are ordered by the priority
\* pattern_start < led < event < pattern_end.
C3_TiePriority ==
    \A l \in 1..Len(loops) :
        \A i, j \in 1..Len(loops[l].timeline) :
            (i < j /\ loops[l].timeline[i].time = loops[l].timeline[j].time)
                => Priority(loops[l].timeline[i].type) <= Priority(loops[l].timeline[j].type)

Completed(l) ==
    /\ loops[l].pc = "clear"
    /\ loops[l].idx > Len(loops[l].timeline)

RecordedWrites(sid) ==
    LET leds == get_session_led_changes(led_changes, sid)
    IN  [i \in 1..Len(leds) |->
            <<leds[i].x, leds[i].y, <<leds[i].color_r, leds[i].color_g, leds[i].color_b>>>>]

C5_NoWriteLost ==
    \A s \in 1..Len(sessions) :
        InFlight = {} => Len(RowsOf(events, s)) = calls[s]

\* two calls against the current session overlapped and both have returned
C5_Witness ==
    /\ InFlight = {}
    /\ overlap
    /\ current_session_id # NoSession
    /\ calls[current_session_id] >= 2
    /\ Len(RowsOf(events, current_session_id)) = calls[current_session_id]

\* C6: every event row and every LED-change row has
\* relative_time = timestamp - start_time of the session its session_id names.
C6_RelativeTime ==
    /\ \A i \in 1..Len(events) :
          /\ events[i].session_id \in 1..Len(sessions)
          /\ events[i].relative_time
                = events[i].timestamp - sessions[events[i].session_id].start_time
    /\ \A i \in 1..Len(led_changes) :
          /\ led_changes[i].session_id \in 1..Len(sessions)
          /\ led_changes[i].relative_time
                = led_changes[i].timestamp
                    - sessions[led_changes[i].session_id].start_time

RecordOps == {"button_press", "button_release", "led_change"}

\* C7: a record_button_press, record_button_release or record_led_change
\* call made while no session is current returns normally (the write is
\* dropped) and leaves the four tables and the current-session pointer as
\* they were.
C7_DroppedWriteChangesNothing ==
    [][(current_session_id = NoSession /\ last_call' # last_call
            /\ last_call'.op \in RecordOps)
        => /\ last_call'.result = "dropped"
           /\ Tables' = Tables
           /\ current_session_id' = NoSession]_vars

\* a write was dropped after a session with recorded events had been ended
C7_Witness ==
    /\ last_call.result = "dropped"
    /\ current_session_id = NoSession
    /\ events # <<>>
    /\ \E s \in 1..Len(sessions) : sessions[s].end_time # NULL

\* ------------------------------------------------------------------ claims: detection
Ended(sid) == sid \in 1..Len(sessions) /\ sessions[sid].end_time # NULL

\* the relative times of the session's presses, in order
PressTimes(sid) ==
    LET pr == SelectSeq(get_session_events(events, sid),
                        LAMBDA e : e.event_type = "button_press")
    IN  [i \in 1..Len(pr) |-> pr[i].relative_time]

Close(t, i) == t[i + 1] - t[i] < RapidGap

\* presses a..b are a maximal run of closely spaced presses
MaximalRun(t, a, b) ==
    /\ a <= b
    /\ \A i \in a..(b - 1) : Close(t, i)
    /\ a = 1 \/ ~Close(t, a - 1)
    /\ b = Len(t) \/ ~Close(t, b)

PatternCount(sid, type, from, to) ==
    Cardinality({k \in 1..Len(patterns) :
                    /\ patterns[k].session_id = sid
                    /\ patterns[k].pattern_type = type
                    /\ patterns[k].start_time = from
                    /\ patterns[k].end_time = to})

\* C8: once the session is ended, a run of at least 3 closely spaced presses
\* that is still open at the end of the stream has its rapid_sequence pattern.
C8_OpenRunEmitted ==
    \A sid \in 1..Len(sessions) : Ended(sid) =>
        LET t == PressTimes(sid)
        IN  \A a \in 1..Len(t) :
                (MaximalRun(t, a, Len(t)) /\ Len(t) - a + 1 >= 3)
                => PatternCount(sid, "rapid_sequence", t[a], t[Len(t)]) >= 1

\* C9: once the session is ended, every pair of consecutive presses more than
\* 3.0 s apart has exactly one long_pause pattern spanning the two presses.
C9_LongPausePerGap ==
    \A sid \in 1..Len(sessions) : Ended(sid) =>
        LET t == PressTimes(sid)
        IN  \A i \in 1..(Len(t) - 1) :
                t[i + 1] - t[i] > PauseGap
                => PatternCount(sid, "long_pause", t[i], t[i + 1]) = 1

\* C10: once the session is ended, every maximal run of closely spaced presses
\* that a gap of 0.3 s or more ends has exactly one rapid_sequence pattern
\* spanning it when it has at least 3 presses, and none when it has fewer.
C10_RunYieldsOnePattern ==
    \A sid \in 1..Len(sessions) : Ended(sid) =>
        LET t == PressTimes(sid)
        IN  \A a \in 1..Len(t), b \in 1..(Len(t) - 1) :
                MaximalRun(t, a, b)
                => PatternCount(sid, "rapid_sequence", t[a], t[b])
                     = (IF b - a + 1 >= 3 THEN 1 ELSE 0)

\* ------------------------------------------------------------------ claims: repeated sequences
\* the session's presses, in order of relative_time
PressEvents(sid) ==
    SelectSeq(get_session_events(events, sid), LAMBDA e : e.event_type = "button_press")

\* the (x, y) of the three presses of the window that starts at press i
Window(pr, i) == <<<<pr[i].x, pr[i].y>>, <<pr[i + 1].x, pr[i + 1].y>>,
                   <<pr[i + 2].x, pr[i + 2].y>>>>

\* the starts of the windows from index from on that equal window i
SameLater(pr, i, from) == {k \in from..(Len(pr) - 2) : Window(pr, k) = Window(pr, i)}

First(S) == CHOOSE m \in S : \A n \in S : m <= n

RepeatsFrom(sid, t) ==
    {k \in 1..Len(patterns) :
        /\ patterns[k].session_id = sid
        /\ patterns[k].pattern_type = "repeated_sequence"
        /\ patterns[k].start_time = t}

\* window i has exactly one repeated_sequence, ending with the window that
\* starts at the first index of later, or none when later is empty
OneRepeatFor(sid, pr, i, later) ==
    IF later = {}
    THEN RepeatsFrom(sid, pr[i].relative_time) = {}
    ELSE /\ Cardinality(RepeatsFrom(sid, pr[i].relative_time)) = 1
         /\ \A k \in RepeatsFrom(sid, pr[i].relative_time) :
                patterns[k].end_time = pr[First(later) + 2].relative_time

\* C11 as stated: for each window start i over the presses of an ended
\* session, exactly one repeated_sequence from press i to the last press of
\* the first window after i with the same positions, none if there is no such
\* window.
C11_RepeatPerWindow ==
    \A sid \in 1..Len(sessions) : Ended(sid) =>
        LET pr == PressEvents(sid)
        IN  \A i \in 1..(Len(pr) - 2) :
                OneRepeatFor(sid, pr, i, SameLater(pr, i, i + 1))

\* C11, amended: the later window is one that does not overlap window i, that
\* is, one that starts at least sequence_length presses after i.
C11_RepeatPerDisjointWindow ==
    \A sid \in 1..Len(sessions) : Ended(sid) =>
        LET pr == PressEvents(sid)
        IN  \A i \in 1..(Len(pr) - 2) :
                OneRepeatFor(sid, pr, i, SameLater(pr, i, i + sequence_length))

\* the spec's example: (0,0),(1,1),(2,2),(5,5),(0,0),(1,1),(2,2) has been
\* analysed and has its one repeated_sequence, from press 1 to press 7
C11_Witness ==
    /\ Ended(1)
    /\ Len(PressEvents(1)) = 7
    /\ [i \in 1..7 |-> <<PressEvents(1)[i].x, PressEvents(1)[i].y>>]
         = <<<<0, 0>>, <<1, 1>>, <<2, 2>>, <<5, 5>>, <<0, 0>>, <<1, 1>>, <<2, 2>>>>
    /\ Len(patterns) = 1
    /\ patterns[1].pattern_type = "repeated_sequence"
    /\ patterns[1].start_time = PressEvents(1)[1].relative_time
    /\ patterns[1].end_time = PressEvents(1)[7].relative_time

\* ------------------------------------------------------------------ claims: releases, short sessions
PressOnly(evs) == SelectSeq(evs, LAMBDA e : e.event_type = "button_press")

\* C12: the patterns of an ended session are those its presses alone give:
\* removing the button_release rows from the stream changes no pattern.
C12_ReleasesChangeNothing ==
    \A sid \in 1..Len(sessions) : Ended(sid) =>
        RowsOf(patterns, sid) = detect_patterns(PressOnly(events), sid)

\* C13: an ended session with fewer than 3 presses has no pattern, whatever
\* releases it holds and whatever the gaps between its presses.
C13_FewPressesNoPattern ==
    \A sid \in 1..Len(sessions) :
        (Ended(sid) /\ Len(PressEvents(sid)) < 3) => get_session_patterns(patterns, sid) = <<>>

\* ------------------------------------------------------------------ claims: end_session
\* C14: when end_session has returned for the current session S (the latest
\* session started, no start having returned since), no session is current, S
\* has an end_time >= start_time, duration = end_time - start_time,
\* total_events = the number of event rows with S's id, and the patterns of S
\* are those detection finds in its events.
C14_EndSessionPostcondition ==
    (last_call = [op |-> "end_session", result |-> "ok"] /\ sessions # <<>>) =>
        LET S == Len(sessions)
        IN  /\ current_session_id = NoSession
            /\ sessions[S].end_time # NULL
            /\ sessions[S].end_time >= sessions[S].start_time
            /\ sessions[S].duration = sessions[S].end_time - sessions[S].start_time
            /\ sessions[S].total_events = Len(RowsOf(events, S))
            /\ RowsOf(patterns, S) = detect_patterns(events, S)

C16_PatternsWithinSession ==
    \A k \in 1..Len(patterns) :
        /\ patterns[k].start_time <= patterns[k].end_time
        /\ Ended(patterns[k].session_id) =>
               /\ 0 <= patterns[k].start_time
               /\ patterns[k].end_time <= sessions[patterns[k].session_id].duration


\* ------------------------------------------------------------------ claims: playback controls
\* C17: play_session called while a playback is in progress is a no-op: from
\* a state where is_playing holds no step starts another loop or changes
\* playback_speed, and a play_session step changes neither the pause flag nor
\* any loop (its position and timeline included).
C17_PlayWhilePlayingNoOp ==
    [][is_playing =>
          /\ Len(loops') = Len(loops)
          /\ playback_speed' = playback_speed
          /\ (\E sid \in 1..2, sp \in Speeds, show \in BOOLEAN :
                  PlaySession(sid, sp, show))
                => UNCHANGED <<is_paused, is_playing, loops, grid>>]_vars

\* a playback in progress, paused in the middle of its timeline, where
\* play_session is enabled
C17_Witness ==
    /\ is_playing /\ is_paused /\ upc = "idle"
    /\ Len(loops) = 1
    /\ loops[1].idx > 1 /\ loops[1].idx <= Len(loops[1].timeline)
    /\ playback_speed # [num |-> 1, den |-> 1]


\* C18: a speed outside [0.25, 4.0] is rejected by play_session and by
\* set_speed, so playback_speed lies in [0.25, 4.0] in every reachable state.
C18_SpeedInRange == ValidSpeed(playback_speed)


\* C19: when stop returns, is_playing is False and every grid cell is off,
\* and a playback for which stop has returned writes no LED afterwards.
C19_StopEndsPlayback ==
    [][/\ (upc = "join" /\ upc' = "idle") => (~is_playing' /\ grid' = ClearedGrid)
       /\ \A l \in 1..Len(loops) :
              loops[l].stopped => Len(loops'[l].writes) <= Len(loops[l].writes)]_vars

\* C20: at most one playback loop is alive at any time.
C20_OneLoopAlive == Cardinality({l \in 1..Len(loops) : Alive(l)}) <= 1


\* ------------------------------------------------------------------ claims: store reads
\* C21: start_session while session A is current makes the new session B
\* the current one and leaves A's event rows, LED rows and session row
\* unchanged; every record call adds its row to the session that is current
\* and changes no earlier row; a session that is not current and has no
\* end_time never gets one; the pointer names no session or one stored
\* session.
C21_StartReplacesPointer ==
    [][/\ (current_session_id # NoSession /\ Len(sessions') > Len(sessions)) =>
            LET A == current_session_id
                B == Len(sessions')
            IN  /\ current_session_id' = B
                /\ B # A
                /\ RowsOf(events', A) = RowsOf(events, A)
                /\ RowsOf(led_changes', A) = RowsOf(led_changes, A)
                /\ sessions'[A] = sessions[A]
                /\ sessions'[A].end_time = NULL
       /\ Len(events') > Len(events) =>
            /\ events' = Append(events, events'[Len(events')])
            /\ events'[Len(events')].session_id = current_session_id
            /\ current_session_id # NoSession
       /\ Len(led_changes') > Len(led_changes) =>
            /\ led_changes' = Append(led_changes, led_changes'[Len(led_changes')])
            /\ led_changes'[Len(led_changes')].session_id = current_session_id
            /\ current_session_id # NoSession
       /\ \A s \in 1..Len(sessions) :
            (s # current_session_id /\ sessions[s].end_time = NULL)
                => sessions'[s].end_time = NULL
       /\ current_session_id' \in {NoSession} \cup 1..Len(sessions')]_vars

\* session 1 was replaced while current and holds a LED row; session 2 is
\* current and holds an event row written after the replacement
C21_Witness ==
    /\ Len(sessions) = 2
    /\ current_session_id = 2
    /\ sessions[1].end_time = NULL
    /\ RowsOf(led_changes, 1) # <<>>
    /\ RowsOf(events, 2) # <<>>


\* the read returns each row of the session once, in ascending
\* relative_time, rows with equal relative_time in insertion (rowid) order
InInsertionOrder(read, stored) ==
    /\ Len(read) = Len(stored)
    /\ {read[i] : i \in 1..Len(read)} = {stored[i] : i \in 1..Len(stored)}
    /\ \A i, j \in 1..Len(read) :
          i < j => \/ read[i].relative_time < read[j].relative_time
                   \/ /\ read[i].relative_time = read[j].relative_time
                      /\ read[i].id < read[j].id

\* C22: get_session_events and get_session_led_changes return exactly the
\* rows of the session in ascending relative_time, equal times in insertion
\* order.
C22_ReadsInTimeThenInsertionOrder ==
    \A sid \in 1..Len(sessions) :
        /\ InInsertionOrder(get_session_events(events, sid), RowsOf(events, sid))
        /\ InInsertionOrder(get_session_led_changes(led_changes, sid),
                            RowsOf(led_changes, sid))


\* the profiles a caller may pass to list_sessions
QueryProfiles == Profiles \cup {""}

Listed(s, p) ==
    \E i \in 1..Len(list_sessions(sessions, p, ListLimit)) :
        list_sessions(sessions, p, ListLimit)[i] = sessions[s]

\* C23 as stated: an ended session appears in list_sessions of its own
\* profile and of no other, and list_sessions(p) returns only sessions of
\* profile p.
C23_ListedUnderOwnProfile ==
    /\ \A s \in 1..Len(sessions) :
          sessions[s].end_time # NULL =>
              /\ Listed(s, sessions[s].user_profile)
              /\ \A p \in QueryProfiles \ {sessions[s].user_profile} : ~Listed(s, p)
    /\ \A p \in QueryProfiles, s \in 1..Len(sessions) :
          Listed(s, p) => sessions[s].user_profile = p

\* the sessions list_sessions(p) selects from
Matching(p) == {s \in 1..Len(sessions) : p = "" \/ sessions[s].user_profile = p}

\* C23, amended: list_sessions(p, limit) returns at most limit sessions, the
\* most recent by start_time among those of profile p, or among all sessions
\* when p is empty or absent: a session of the selection is listed when
\* fewer than limit others of the selection started at or after it, and is
\* not listed when limit or more started after it; no other session is
\* listed.
C23_ListedAmongMostRecent ==
    \A p \in QueryProfiles :
        /\ Len(list_sessions(sessions, p, ListLimit)) <= ListLimit
        /\ \A s \in 1..Len(sessions) :
              /\ Listed(s, p) => s \in Matching(p)
              /\ (/\ s \in Matching(p)
                  /\ Cardinality({t \in Matching(p) \ {s} :
                        sessions[t].start_time >= sessions[s].start_time}) < ListLimit)
                    => Listed(s, p)
              /\ Cardinality({t \in Matching(p) :
                        sessions[t].start_time > sessions[s].start_time}) >= ListLimit
                    => ~Listed(s, p)

\* two ended sessions of profile "A": the later one is listed under "A", the
\* earlier one is not, and neither is listed under "B"
C23_Witness ==
    /\ Len(sessions) = 2
    /\ \A s \in 1..2 : sessions[s].end_time # NULL /\ sessions[s].user_profile = "A"
    /\ sessions[2].start_time > sessions[1].start_time
    /\ Listed(2, "A") /\ ~Listed(1, "A")
    /\ ~Listed(1, "B") /\ ~Listed(2, "B")


\* the ids play_session is called with that name no session, and id 0
MissingIds == (0..2) \ {sessions[s].id : s \in 1..Len(sessions)}

\* C24: for an id that names no session get_session returns None, the three
\* list reads return empty lists and get_session_summary returns {}; no
\* step starts a playback loop for such an id, and a play_session step for
\* it changes nothing.
C24_MissingSessionReads ==
    /\ [](\A id \in MissingIds :
            /\ get_session(sessions, id) = <<>>
            /\ get_session_events(events, id) = <<>>
            /\ get_session_led_changes(led_changes, id) = <<>>
            /\ get_session_patterns(patterns, id) = <<>>
            /\ get_session_summary(sessions, events, patterns, id) = <<>>)
    /\ [][/\ \A l \in 1..Len(loops') :
                l > Len(loops) => loops'[l].sid \notin MissingIds
           /\ \A id \in MissingIds :
                (\E sp \in Speeds, show \in BOOLEAN : PlaySession(id, sp, show))
                    => UNCHANGED vars]_vars

\* an engine that has played session 1 and is idle again, over a store
\* whose session 1 has events, LED changes and patterns and where id 2
\* names no session
C24_Witness ==
    /\ ~is_playing /\ upc = "idle" /\ Len(loops) = 1 /\ ~Alive(1)
    /\ 2 \in MissingIds
    /\ get_session(sessions, 1) # <<>>
    /\ get_session_led_changes(led_changes, 1) # <<>>
    /\ get_session_patterns(patterns, 1) # <<>>
    /\ get_session_summary(sessions, events, patterns, 1) # <<>>


\* the JSON object obj holds the columns of row: a number for a value, null
\* for None, a string for a TEXT column
Holds(obj, row) ==
    /\ DOMAIN obj = DOMAIN row
    /\ \A k \in DOMAIN row :
          IF obj[k].type = "null" THEN row[k] = NULL ELSE obj[k].value = row[k]

\* the JSON array arr holds the rows of read, one object per row, in order
HoldsAll(arr, read) ==
    /\ Len(arr) = Len(read)
    /\ \A i \in 1..Len(read) : Holds(arr[i], read[i])

\* C25: the document export_session writes holds the session row, and in
\* its events, led_changes and patterns arrays exactly the rows of the
\* session, as many as are stored, in the order the reads return them:
\* ascending relative_time for events and LED changes.
C25_ExportHoldsStoredRows ==
    \A sid \in 1..Len(sessions) :
        LET doc == export_session(sessions, events, led_changes, patterns, now, sid)
        IN  /\ Holds(doc.session, sessions[sid])
            /\ HoldsAll(doc.events, get_session_events(events, sid))
            /\ HoldsAll(doc.led_changes, get_session_led_changes(led_changes, sid))
            /\ HoldsAll(doc.patterns, get_session_patterns(patterns, sid))
            /\ Len(doc.events) = Len(RowsOf(events, sid))
            /\ Len(doc.led_changes) = Len(RowsOf(led_changes, sid))
            /\ Len(doc.patterns) = Len(RowsOf(patterns, sid))
            /\ \A i, j \in 1..Len(doc.events) :
                  i < j => doc.events[i].relative_time.value
                             <= doc.events[j].relative_time.value
            /\ \A i, j \in 1..Len(doc.led_changes) :
                  i < j => doc.led_changes[i].relative_time.value
                             <= doc.led_changes[j].relative_time.value

\* an ended session with an event row and a LED row, whose exported
\* document holds one event, one LED change and a session with an end_time
C25_Witness ==
    /\ sessions # <<>>
    /\ sessions[1].end_time # NULL
    /\ LET doc == export_session(sessions, events, led_changes, patterns, now, 1)
       IN  /\ Len(doc.events) = 1
           /\ Len(doc.led_changes) = 1
           /\ doc.events[1].event_type.value = "button_press"
           /\ doc.session.end_time.type = "number"


AnimKinds == {"breathe", "pulse"}

AnimIdle(op) == [pc |-> "idle", op |-> op, key |-> <<>>, keys |-> {}]

\* what the caller does once stop_animation has returned
AfterStop(a) ==
    IF a.op \in AnimKinds THEN [a EXCEPT !.pc = "reg_flag"]
    ELSE IF a.op = "stop_all_animations" /\ a.keys # {}
    THEN LET k == CHOOSE k \in a.keys : TRUE
         IN  [a EXCEPT !.pc = "stop", !.key = k, !.keys = a.keys \ {k}]
    ELSE AnimIdle(a.op)

\* breathe(x, y, ...) / pulse(x, y, ...) are called (lines 114, 154)
Animate(kind, key) ==
    /\ apc.pc = "idle"
    /\ Len(athreads) < MaxAnims
    /\ apc' = [pc |-> "stop", op |-> kind, key |-> key, keys |-> {}]
    /\ UNCHANGED <<active_animations, animation_stop_flags, anim_lock, athreads>>

\* stop_animation(x, y) is called by the user of the animator (line 50)
CallStopAnimation(key) ==
    /\ apc.pc = "idle"
    /\ apc' = [pc |-> "stop", op |-> "stop_animation", key |-> key, keys |-> {}]
    /\ UNCHANGED <<active_animations, animation_stop_flags, anim_lock, athreads>>

\* stop_all_animations: with self.lock: keys = list(animation_stop_flags.keys())
\* (lines 65-66), then the first stop_animation is entered (lines 67-68)
StopAllAnimations ==
    /\ apc.pc = "idle"
    /\ anim_lock = "free"
    /\ apc' = AfterStop([pc |-> "idle", op |-> "stop_all_animations", key |-> <<>>,
                          keys |-> {k \in AnimKeys : animation_stop_flags[k] # 0}])
    /\ UNCHANGED <<active_animations, animation_stop_flags, anim_lock, athreads>>

\* stop_animation up to the join: with self.lock, the key's flag is set
\* (lines 53-55); with no thread under the key the flag entry is deleted at
\* once (line 61)
StopAnimation ==
    /\ apc.pc = "stop"
    /\ anim_lock = "free"
    /\ LET f == animation_stop_flags[apc.key]
       IN  IF f = 0
           THEN /\ apc' = AfterStop(apc)
                /\ UNCHANGED <<active_animations, animation_stop_flags, anim_lock,
                               athreads>>
           ELSE /\ athreads' = IF f <= Len(athreads)
                               THEN [athreads EXCEPT ![f].flag = TRUE]
                               ELSE athreads
                /\ IF active_animations[apc.key] # 0
                   THEN /\ anim_lock' = "caller"
                        /\ apc' = [apc EXCEPT !.pc = "join"]
                        /\ UNCHANGED <<active_animations, animation_stop_flags>>
                   ELSE /\ animation_stop_flags' =
                               [animation_stop_flags EXCEPT ![apc.key] = 0]
                        /\ apc' = AfterStop(apc)
                        /\ UNCHANGED <<active_animations, anim_lock>>

\* thread.join(timeout=0.1) returns, both entries are deleted and the lock
\* is released (lines 59-61).  A thread in its loop whose flag is set
\* tests the flag within frame_time = 1/30 s: the join waits for it.  A thread
\* waiting for self.lock in its cleanup cannot end: the join times out.
StopAnimationJoin ==
    /\ apc.pc = "join"
    /\ LET t == active_animations[apc.key]
       IN  ~(athreads[t].pc = "loop" /\ athreads[t].flag)
    /\ active_animations' = [active_animations EXCEPT ![apc.key] = 0]
    /\ animation_stop_flags' = [animation_stop_flags EXCEPT ![apc.key] = 0]
    /\ anim_lock' = "free"
    /\ apc' = AfterStop(apc)
    /\ UNCHANGED athreads

\* stop_flag = threading.Event(); with self.lock:
\* self.animation_stop_flags[key] = stop_flag (lines 129-133, 169-173)
RegisterFlag ==
    /\ apc.pc = "reg_flag"
    /\ anim_lock = "free"
    /\ animation_stop_flags' =
           [animation_stop_flags EXCEPT ![apc.key] = Len(athreads) + 1]
    /\ apc' = [apc EXCEPT !.pc = "reg_thread"]
    /\ UNCHANGED <<active_animations, anim_lock, athreads>>

\* thread = threading.Thread(target=animate); with self.lock:
\* self.active_animations[key] = thread (lines 147-149, 197-199)
RegisterThread ==
    /\ apc.pc = "reg_thread"
    /\ anim_lock = "free"
    /\ athreads' = Append(athreads, [kind |-> apc.op, key |-> apc.key,
                                      pc |-> "created", flag |-> FALSE])
    /\ active_animations' = [active_animations EXCEPT ![apc.key] = Len(athreads')]
    /\ apc' = [apc EXCEPT !.pc = "start"]
    /\ UNCHANGED <<animation_stop_flags, anim_lock>>

\* thread.start() (lines 150, 200), and the call returns
ThreadStart ==
    /\ apc.pc = "start"
    /\ athreads' = [athreads EXCEPT ![Len(athreads)].pc = "loop"]
    /\ apc' = AnimIdle(apc.op)
    /\ UNCHANGED <<active_animations, animation_stop_flags, anim_lock>>

\* animate() leaves its loop: a breathe thread when its flag is set
\* (line 137), and returns; a pulse thread when its flag is set or its
\* duration has elapsed (lines 177-181), and goes on to its cleanup
AnimateLoopExit(t) ==
    /\ athreads[t].pc = "loop"
    /\ athreads[t].flag \/ athreads[t].kind = "pulse"
    /\ athreads' = [athreads EXCEPT
                      ![t].pc = IF athreads[t].kind = "pulse" THEN "cleanup" ELSE "done"]
    /\ UNCHANGED <<active_animations, animation_stop_flags, anim_lock, apc>>

\* the cleanup of a pulse thread: with self.lock, whatever entries are
\* under the key are deleted (lines 191-195)
AnimateCleanup(t) ==
    /\ athreads[t].pc = "cleanup"
    /\ anim_lock = "free"
    /\ animation_stop_flags' = [animation_stop_flags EXCEPT ![athreads[t].key] = 0]
    /\ active_animations' = [active_animations EXCEPT ![athreads[t].key] = 0]
    /\ athreads' = [athreads EXCEPT ![t].pc = "done"]
    /\ UNCHANGED <<anim_lock, apc>>

otherThanAnim == <<storeVars, now, last_call, calls, overlap, writerVars, ctlVars,
                   playVars, turnVars, cfgVars, outVars>>

NextAnim ==
    \/ (\E kind \in AnimKinds, key \in AnimKeys : Animate(kind, key))
           /\ UNCHANGED otherThanAnim
    \/ (\E key \in AnimKeys : CallStopAnimation(key)) /\ UNCHANGED otherThanAnim
    \/ StopAllAnimations /\ UNCHANGED otherThanAnim
    \/ StopAnimation /\ UNCHANGED otherThanAnim
    \/ StopAnimationJoin /\ UNCHANGED otherThanAnim
    \/ RegisterFlag /\ UNCHANGED otherThanAnim
    \/ RegisterThread /\ UNCHANGED otherThanAnim
    \/ ThreadStart /\ UNCHANGED otherThanAnim
    \/ (\E t \in 1..Len(athreads) : AnimateLoopExit(t)) /\ UNCHANGED otherThanAnim
    \/ (\E t \in 1..Len(athreads) : AnimateCleanup(t)) /\ UNCHANGED otherThanAnim

SpecAnim == Init /\ [][NextAnim]_vars

\* the animation threads that are in their loop, setting the LED of key
Driving(key) ==
    {t \in 1..Len(athreads) : athreads[t].key = key /\ athreads[t].pc = "loop"}

\* C27: once stop_all_animations() has returned, active_animations and
\* animation_stop_flags have no entry, whatever animations were started
\* before and however their threads, finishing ones included, interleaved
\* with the call.
C27_StopAllLeavesNothing ==
    (apc.pc = "idle" /\ apc.op = "stop_all_animations")
        => \A k \in AnimKeys : /\ active_animations[k] = 0
                               /\ animation_stop_flags[k] = 0

\* C28: once breathe or pulse has returned, at most one animation thread
\* drives the button, the one that call started.
C28_OneThreadPerButton ==
    (apc.pc = "idle" /\ apc.op \in AnimKinds)
        => \A k \in AnimKeys : Cardinality(Driving(k)) <= 1


\* ------------------------------------------------------------------ turn_taker.py
\* Threads ask can_player_press while another thread changes the mode and the
\* turn.  can_player_press takes no lock: each read of self.mode and of
\* self.current_player is a step of its own.  The fields mode, cp and clean
\* of a call are history: self.mode and self.current_player when the call
\* began, and whether they have kept these values.  A call that was not
\* clean leaves no record when it returns.
Modes == {"free_play", "strict_turns", "call_response", "timed_turns"}
Players == {1, 2}
TButtons == {<<3, 4>>, <<4, 4>>, <<5, 4>>}

\* is_in_zone for player_zones = {1: LEFT_HALF, 2: RIGHT_HALF} (lines 90-102)
\* and get_player_for_button (lines 104-109)
get_player_for_button(b) ==
    IF b[1] <= 3 THEN 1 ELSE IF b[1] >= 5 THEN 2 ELSE NoPlayer

\* a test that lets the owner of the button press, whoever has the turn
StrictAllowsOwner(player, button_player, cp) == player = button_player

\* return player == self.current_player (line 127)
StrictAllows(player, button_player, cp) == player = cp

\* return player == self.current_player and button_player == player
\* (lines 131, 135)
ZoneAllows(player, button_player, cp) == player = cp /\ button_player = player

TReturn(c, r) ==
    tcall' = [tcall EXCEPT ![c] = IF @.clean
                                  THEN [@ EXCEPT !.pc = "returned", !.result = r]
                                  ELSE [pc |-> "idle"]]
TGoto(c, pc) == tcall' = [tcall EXCEPT ![c] = [@ EXCEPT !.pc = pc]]

\* can_player_press(x, y, player) is called; player = None is NoPlayer
CanPlayerPress(c, b, player) ==
    /\ tcall[c].pc \in {"idle", "returned"}
    /\ tcall' = [tcall EXCEPT ![c] =
                   [pc |-> "default", button |-> b, player |-> player,
                    result |-> FALSE, clean |-> TRUE, mode |-> mode,
                    cp |-> current_player]]
    /\ UNCHANGED <<mode, current_player>>

\* if player is None: player = self.current_player (lines 113-114)
T_Default(c) ==
    /\ tcall[c].pc = "default"
    /\ tcall' = [tcall EXCEPT ![c] =
                   [@ EXCEPT !.pc = "free",
                             !.player = IF @ = NoPlayer THEN current_player ELSE @]]
    /\ UNCHANGED <<mode, current_player>>

\* if self.mode == FREE_PLAY: return True; the zone test (lines 117-123)
T_Free(c) ==
    /\ tcall[c].pc = "free"
    /\ IF mode = "free_play" THEN TReturn(c, TRUE)
       ELSE IF get_player_for_button(tcall[c].button) = NoPlayer THEN TReturn(c, FALSE)
       ELSE TGoto(c, "strict_turns")
    /\ UNCHANGED <<mode, current_player>>

\* if self.mode == <m> (lines 126, 130, 134); after the last test, return
\* False (line 137)
T_Mode(c, m, next) ==
    /\ tcall[c].pc = m
    /\ IF mode = m THEN TGoto(c, "cmp_" \o m)
       ELSE IF next = "" THEN TReturn(c, FALSE)
       ELSE TGoto(c, next)
    /\ UNCHANGED <<mode, current_player>>

\* the return statement of the mode found, which reads self.current_player
T_Compare(c) ==
    /\ tcall[c].pc \in {"cmp_strict_turns", "cmp_call_response", "cmp_timed_turns"}
    /\ LET bp == get_player_for_button(tcall[c].button)
       IN  TReturn(c, IF tcall[c].pc = "cmp_strict_turns"
                      THEN StrictAllows(tcall[c].player, bp, current_player)
                      ELSE ZoneAllows(tcall[c].player, bp, current_player))
    /\ UNCHANGED <<mode, current_player>>

\* history: the calls that are running when self.mode becomes m and
\* self.current_player becomes p
Seen(m, p) ==
    [c \in TCallers |->
        IF tcall[c].pc \in {"idle", "returned"} THEN tcall[c]
        ELSE [tcall[c] EXCEPT !.clean = @ /\ m = mode /\ p = current_player]]

\* set_mode(mode), under self.lock (lines 141-155)
SetMode(m) ==
    /\ mode' = m
    /\ tcall' = Seen(m, current_player)
    /\ UNCHANGED current_player

\* switch_turn(next_player), under self.lock (lines 157-185);
\* next_player = None is NoPlayer
SwitchTurn(next_player) ==
    /\ current_player' = IF next_player # NoPlayer THEN next_player
                         ELSE (current_player % 2) + 1
    /\ tcall' = Seen(mode, current_player')
    /\ UNCHANGED mode

otherThanTurn == <<storeVars, now, last_call, calls, overlap, writerVars, ctlVars,
                   playVars, animVars, cfgVars, outVars>>

NextTurn ==
    \/ (\E c \in TCallers, b \in TButtons, p \in Players \cup {NoPlayer} :
            CanPlayerPress(c, b, p)) /\ UNCHANGED otherThanTurn
    \/ (\E c \in TCallers : T_Default(c)) /\ UNCHANGED otherThanTurn
    \/ (\E c \in TCallers : T_Free(c)) /\ UNCHANGED otherThanTurn
    \/ (\E c \in TCallers : T_Mode(c, "strict_turns", "call_response"))
           /\ UNCHANGED otherThanTurn
    \/ (\E c \in TCallers : T_Mode(c, "call_response", "timed_turns"))
           /\ UNCHANGED otherThanTurn
    \/ (\E c \in TCallers : T_Mode(c, "timed_turns", "")) /\ UNCHANGED otherThanTurn
    \/ (\E c \in TCallers : T_Compare(c)) /\ UNCHANGED otherThanTurn
    \/ (\E m \in Modes : SetMode(m)) /\ UNCHANGED otherThanTurn
    \/ (\E p \in Players \cup {NoPlayer} : SwitchTurn(p)) /\ UNCHANGED otherThanTurn

SpecTurn == Init /\ [][NextTurn]_vars


Returned == {c \in TCallers : tcall[c].pc = "returned"}

\* C29: a call of can_player_press made in STRICT_TURNS mode returns true
\* only if its player is the current player; calls for the same button and
\* player made in STRICT_TURNS mode under the same current player return
\* the same result; a call made in FREE_PLAY mode returns true, for every
\* player and every button.  (Calls during which neither the mode nor the
\* turn changed.)
C29_StrictTurnsAndFreePlay ==
    \A c \in Returned :
        /\ (tcall[c].mode = "strict_turns" /\ tcall[c].result)
               => tcall[c].player = tcall[c].cp
        /\ tcall[c].mode = "free_play" => tcall[c].result
        /\ \A d \in Returned :
               (/\ tcall[c].mode = "strict_turns"
                /\ tcall[d].mode = "strict_turns"
                /\ tcall[d].cp = tcall[c].cp
                /\ tcall[d].button = tcall[c].button
                /\ tcall[d].player = tcall[c].player)
                   => tcall[d].result = tcall[c].result

\* two calls have returned that were made in STRICT_TURNS mode while player 1
\* had the turn, for a button of player 2's zone: true for player 1, false
\* for player 2
C29_Witness ==
    \E c, d \in Returned :
        /\ tcall[c].mode = "strict_turns" /\ tcall[d].mode = "strict_turns"
        /\ tcall[c].cp = 1 /\ tcall[d].cp = 1
        /\ tcall[c].button = <<5, 4>> /\ tcall[d].button = <<5, 4>>
        /\ tcall[c].player = 1 /\ tcall[c].result
        /\ tcall[d].player = 2 /\ ~tcall[d].result

\* ------------------------------------------------------------------ config_reloader.py
\* The synth's six configuration attributes each hold the number of the
\* configuration file they were taken from (0: the one loaded at start-up),
\* or NULL for a dictionary that assign_notes_and_files had emptied and not
\* yet filled when it raised.
\*   unreadable  open() raises                       (synth.py line 27)
\*   invalid     yaml.safe_load raises               (line 28)
\*   no_name ... no_colors   the first key the file lacks (lines 29-32)
\*   bad_model   the model has no layout, or the scale is missing
\*               (synth.py lines 57-58)
\*   bad_note    a note of the layout has no colour (synth.py line 76)
\*   complete    the reload succeeds
ConfigKinds == {"unreadable", "invalid", "no_name", "no_models", "no_scales",
                "no_colors", "bad_model", "bad_note", "complete"}
ConfigFiles == [v : 1..MaxConfigs, kind : ConfigKinds]

\* load_config raises
LoadRaises(f) ==
    f.kind \in {"unreadable", "invalid", "no_name", "no_models", "no_scales", "no_colors"}

\* LaunchpadSynth.load_config: the attributes are assigned one after the
\* other, up to the first key that is missing (synth.py lines 26-32)
load_config(s, f) ==
    LET n == CASE f.kind \in {"unreadable", "invalid", "no_name"} -> 0
               [] f.kind = "no_models" -> 1
               [] f.kind = "no_scales" -> 2
               [] f.kind = "no_colors" -> 3
               [] OTHER -> 4
    IN  [s EXCEPT !.model_name = IF n >= 1 THEN f.v ELSE @,
                  !.models = IF n >= 2 THEN f.v ELSE @,
                  !.scales = IF n >= 3 THEN f.v ELSE @,
                  !.colors = IF n >= 4 THEN f.v ELSE @]

\* LaunchpadSynth.assign_notes_and_files (synth.py lines 56-89)
assign_notes_and_files(s, f) ==
    IF f.kind = "bad_model" THEN s
    ELSE IF f.kind = "bad_note" THEN [s EXCEPT !.notes = NULL, !.audio_files = NULL]
    ELSE [s EXCEPT !.notes = f.v, !.audio_files = f.v]

\* the except branch: notes, audio_files, model_name, scales and colors are
\* put back from old_config (lines 162-166)
RestoreOldConfig(s, old_config) ==
    [s EXCEPT !.notes = old_config.notes,
              !.audio_files = old_config.audio_files,
              !.model_name = old_config.model_name,
              !.scales = old_config.scales,
              !.colors = old_config.colors]

\* reload_config(config_path), under self.lock, with one registered callback
\* (lines 96-181)
ReloadConfig(f) ==
    /\ Len(notified) < MaxReloads
    /\ LET old_config == synth
           loaded == load_config(synth, f)
           assigned == assign_notes_and_files(loaded, f)
           success == f.kind = "complete"
           entry == [path |-> f.v, success |-> success]
           history == Append(config_history, entry)
       IN  /\ synth' = IF success THEN assigned
                       ELSE IF LoadRaises(f) THEN RestoreOldConfig(loaded, old_config)
                       ELSE RestoreOldConfig(assigned, old_config)
           /\ config_history' = IF success /\ Len(history) > max_history
                                THEN Tail(history) ELSE history
           /\ notified' = Append(notified, entry)

otherThanCfg == <<storeVars, now, last_call, calls, overlap, writerVars, ctlVars,
                  playVars, animVars, turnVars, outVars>>

NextCfg == (\E f \in ConfigFiles : ReloadConfig(f)) /\ UNCHANGED otherThanCfg

SpecCfg == Init /\ [][NextCfg]_vars

\* C30: a reload_config that fails leaves model_name, models, scales,
\* colors, notes and audio_files as they were before the call, and the
\* registered callback is told success = false.
C30_FailedReloadKeepsConfig ==
    [][(/\ Len(notified') = Len(notified) + 1
        /\ ~config_history'[Len(config_history')].success)
           => /\ synth' = synth
              /\ ~notified'[Len(notified')].success]_vars


\* C31: a record_button_press / record_button_release / record_led_change
\* call that interleaves with end_session ends by writing its one row or by
\* being dropped, never by raising, and no stored row has a null session id
\* or an undefined relative_time.
C31_RecordNeverRaises ==
    /\ last_call.op \in EventKinds \cup {"led_change"}
           => last_call.result \in {"ok", "dropped"}
    /\ \A i \in 1..Len(events) :
           events[i].session_id # NoSession /\ events[i].relative_time # NULL
    /\ \A i \in 1..Len(led_changes) :
           led_changes[i].session_id # NoSession /\ led_changes[i].relative_time # NULL


\* C32: once a session's end_time is set, no step adds an event or
\* LED-change row with that session's id.
C32_NoRowAfterEnd ==
    [][\A s \in 1..Len(sessions) :
          sessions[s].end_time # NULL =>
              /\ RowsOf(events', s) = RowsOf(events, s)
              /\ RowsOf(led_changes', s) = RowsOf(led_changes, s)]_vars


\* ------------------------------------------------------------------ claims: timeline
Occurrences(seq, x) == Cardinality({i \in 1..Len(seq) : seq[i] = x})

Merged(l) == l \in 1..Len(loops) /\ loops[l].pc \notin {"begin", "dead"}

\* the items the session's rows call for
Wanted(sid, show) ==
    LET evs == RowsOf(events, sid)
        leds == RowsOf(led_changes, sid)
        pats == IF show THEN RowsOf(patterns, sid) ELSE <<>>
    IN  [i \in 1..Len(evs) |->
            [time |-> evs[i].relative_time, type |-> "event", data |-> evs[i]]]
        \o [i \in 1..Len(leds) |->
            [time |-> leds[i].relative_time, type |-> "led", data |-> leds[i]]]
        \o [i \in 1..Len(pats) |->
            [time |-> pats[i].start_time, type |-> "pattern_start", data |-> pats[i]]]
        \o [i \in 1..Len(pats) |->
            [time |-> pats[i].end_time, type |-> "pattern_end", data |-> pats[i]]]

\* C33: the merged timeline is in non-decreasing time, is a permutation of
\* one item per event, one per LED change and, with show_patterns, one
\* pattern_start and one pattern_end per pattern (none without), and each
\* pattern's pattern_start comes before its pattern_end.
C33_TimelineIsSortedPermutation ==
    \A l \in 1..Len(loops) :
        Merged(l) =>
            LET tl == loops[l].timeline
                want == Wanted(loops[l].sid, loops[l].show)
            IN  /\ \A i \in 1..(Len(tl) - 1) : tl[i].time <= tl[i + 1].time
                /\ Len(tl) = Len(want)
                /\ \A i \in 1..Len(want) :
                       Occurrences(tl, want[i]) = Occurrences(want, want[i])
                /\ \A i, j \in 1..Len(tl) :
                       (/\ tl[i].type = "pattern_end"
                        /\ tl[j].type = "pattern_start"
                        /\ tl[i].data = tl[j].data) => j < i

\* a playback with show_patterns of a session with presses, LED changes and
\* a pattern has merged its timeline, and a marker stands before a row item
C33_Witness ==
    \E l \in 1..Len(loops) :
        /\ Merged(l) /\ loops[l].show
        /\ \E i, j, k \in 1..Len(loops[l].timeline) :
               /\ loops[l].timeline[i].type = "pattern_start"
               /\ loops[l].timeline[j].type = "led"
               /\ loops[l].timeline[k].type = "event"
               /\ i < j /\ i < k


\* ------------------------------------------------------------------ claims: highlight
Brightened(color) == [i \in 1..3 |-> IF color[i] + 50 > 255 THEN 255 ELSE color[i] + 50]

RecordedColor(led) == <<led.color_r, led.color_g, led.color_b>>

\* C34: a pattern_start item sets the highlight flag and a pattern_end item
\* clears it; an LED item is written with every channel raised to
\* min(255, c + 50) exactly when the flag is set when the item is handled,
\* and with its recorded colour otherwise.
C34_HighlightFollowsMarkers ==
    [][\A l \in 1..Len(loops) :
          Applies(l) =>
              LET item == loops[l].timeline[loops[l].idx]
                  flag == loops[l].current_pattern # <<>>
                  flagAfter == loops'[l].current_pattern # <<>>
                  drawn == IF flag THEN Brightened(RecordedColor(item.data))
                           ELSE RecordedColor(item.data)
              IN  /\ item.type = "pattern_start" => flagAfter
                  /\ item.type = "pattern_end" => ~flagAfter
                  /\ item.type \in {"led", "event"} => flagAfter = flag
                  /\ item.type = "led" =>
                         /\ loops'[l].writes =
                                Append(loops[l].writes, <<item.data.x, item.data.y, drawn>>)
                         /\ grid'[<<item.data.x, item.data.y>>] = drawn
                  /\ item.type # "led" => loops'[l].writes = loops[l].writes]_vars

\* a playback has drawn its first LED item with the recorded colour and,
\* after a pattern_start, its second one brightened
C34_Witness ==
    \E l \in 1..Len(loops) :
        /\ Merged(l) /\ loops[l].show
        /\ Len(loops[l].writes) = 2
        /\ loops[l].writes[1] = RecordedWrites(loops[l].sid)[1]
        /\ loops[l].writes[2][3] = Brightened(RecordedWrites(loops[l].sid)[2][3])
        /\ loops[l].writes[2][3] # RecordedWrites(loops[l].sid)[2][3]


\* ------------------------------------------------------------------ SpecNest
\* Playback, with show_patterns, of a session of seven presses on one button
\* and seven LED changes, 0.1 s apart, at four times the recorded speed.
\* detect_patterns found a rapid sequence from 0.0 s to 0.6 s and repeated
\* sequences from 0.0 s to 0.5 s and from 0.1 s to 0.6 s in it.
InitNest == RecordedStore(NestPresses, NestPresses)

NextNest ==
    \/ /\ is_playing \/ Len(loops) < MaxPlays
       /\ PlaySession(1, [num |-> 4, den |-> 1], TRUE)
    \/ LoopBegin
    \/ LoopFor
    \/ LoopWait
    \/ LoopCheck
    \/ LoopFinally
    \/ LoopClear
    \/ Pause
    \/ Resume
    \/ Stop
    \/ StopJoined
    \/ PlayTick

SpecNest == InitNest /\ [][NextNest]_vars

\* the item at position idx lies between the pattern_start and the
\* pattern_end of some pattern
InsidePattern(tl, idx) ==
    \E i \in 1..(idx - 1), j \in (idx + 1)..Len(tl) :
        /\ tl[i].type = "pattern_start"
        /\ tl[j].type = "pattern_end"
        /\ tl[i].data = tl[j].data

\* C35: with show_patterns, every LED item that lies between the
\* pattern_start and the pattern_end of at least one pattern is drawn
\* brightened, also when patterns overlap or nest.
C35_BrightInsideAnyPattern ==
    [][\A l \in 1..Len(loops) :
          (/\ Applies(l)
           /\ loops[l].timeline[loops[l].idx].type = "led"
           /\ InsidePattern(loops[l].timeline, loops[l].idx))
              => LET led == loops[l].timeline[loops[l].idx].data
                 IN  loops'[l].writes[Len(loops'[l].writes)][3]
                         = Brightened(RecordedColor(led))]_vars


\* ------------------------------------------------------------------ states
\* C37: the paused flag is set only while a playback is in progress:
\* is_paused implies is_playing in every reachable state, so pause() or
\* resume() called when nothing is playing leaves the engine idle.
C37_PausedOnlyWhilePlaying == is_paused => is_playing


\* ------------------------------------------------------------------ SpecLive
\* Playback of a short recorded session with a scheduler that lets every
\* playback thread run.  Time passes while a loop sleeps in its wait.

\* time.sleep(0.001) in the loop of lines 157-161: the item is not due,
\* the playback is neither stopped nor paused
L_Sleep(l) ==
    /\ loops[l].pc = "wait"
    /\ WaitExit(l) = "none"
    /\ now' = now + 1
    /\ loops' = Elapsed(1)
    /\ UNCHANGED <<storeVars, last_call, calls, overlap, writerVars, ctlVars, extVars,
                   is_playing, is_paused, playback_speed, grid, upc>>

LoopSleep == \E l \in 1..Len(loops) : L_Sleep(l)

\* one step of playback thread l after it has built its timeline
L_Step(l) ==
    /\ l \in 1..Len(loops)
    /\ \/ L_For(l)
       \/ L_Wait(l)
       \/ L_Sleep(l)
       \/ L_Check(l)
       \/ L_Finally(l)
       \/ L_Clear(l)

NextLive ==
    \/ PlayStart
    \/ LoopBegin
    \/ LoopFor
    \/ LoopWait
    \/ LoopSleep
    \/ LoopCheck
    \/ LoopFinally
    \/ LoopClear
    \/ Pause
    \/ Resume
    \/ Stop
    \/ StopJoined

SpecLive ==
    /\ InitStop
    /\ [][NextLive]_vars
    /\ \A l \in 1..MaxPlays : WF_vars(L_Step(l))
    \* weak fairness of L_Begin(l), which is enabled exactly when thread l
    \* has been started and has not yet built its timeline
    /\ \A l \in 1..MaxPlays : []<>(~(l \in 1..Len(loops) /\ loops[l].pc = "begin"))

DetectAgain(sid) ==
    /\ sid \in 1..Len(sessions)
    /\ sessions[sid].end_time # NULL
    /\ Len(patterns) < MaxPatternRows
    /\ patterns' = patterns \o detect_patterns(events, sid)
    /\ last_call' = [op |-> "detect_patterns", result |-> "ok"]
    /\ UNCHANGED <<sessions, events, led_changes, current_session_id,
                   session_start_time, now, calls, overlap,
                   writerVars, ctlVars, extVars, playVars>>

Redetect == \E sid \in 1..MaxSessions : DetectAgain(sid)

NextAgain == NextDetect \/ Redetect

SpecAgain == Init /\ [][NextAgain]_vars

\* C38: a detection pass on a session that was analysed before leaves the
\* session with the pattern rows it had after the first pass, without
\* duplicates, and leaves the patterns of the other sessions as they were.
C38_DetectionRegenerates ==
    [][last_call'.op = "detect_patterns"
          => \A s \in 1..Len(sessions) :
                 RowsOf(patterns', s) = RowsOf(patterns, s)]_vars


\* ------------------------------------------------------------------ SpecAscii
\* generate_session_video_ascii (playback_engine.py, lines 302-348) over the
\* LED changes of a session recorded by one caller

\* frame_time = round(led['relative_time'], 1) (line 318); relative_time is
\* a whole number of 0.1 s here
frame_time(led) == led.relative_time

\* frames[t] (lines 316-321): cell -> the colour of the last change of the
\* list that falls into frame t and sets that cell
FrameOf(leds, t) ==
    LET hits(c) == {i \in 1..Len(leds) :
                       frame_time(leds[i]) = t /\ <<leds[i].x, leds[i].y>> = c}
        last(c) == CHOOSE i \in hits(c) : \A j \in hits(c) : j <= i
    IN  [c \in {c \in Cells : hits(c) # {}} |->
            <<leds[last(c)].color_r, leds[last(c)].color_g, leds[last(c)].color_b>>]

RECURSIVE sorted(_)
\* sorted(frames.keys()) (line 327)
sorted(keys) ==
    IF keys = {} THEN <<>>
    ELSE LET least == CHOOSE k \in keys : \A other \in keys : k <= other
         IN  <<least>> \o sorted(keys \ {least})

\* a grid state that starts from nothing in every frame
UpdateGridStateFresh(grid_state, frame) ==
    [c \in Cells |-> IF c \in DOMAIN frame THEN frame[c] ELSE Off]

\* grid_state[(x, y)] = color for the changes of the frame (lines 329-330);
\* a cell without an entry reads as (0, 0, 0) (line 337)
UpdateGridState(grid_state, frame) ==
    [c \in Cells |-> IF c \in DOMAIN frame THEN frame[c] ELSE grid_state[c]]

\* the lines of one frame (lines 333-342): the heading and a glyph per cell
RenderFrame(t, grid_state) ==
    [frame_time |-> t,
     rows |-> [c \in Cells |->
                  IF grid_state[c][1] + grid_state[c][2] + grid_state[c][3] > 0
                  THEN "lit" ELSE "unlit"]]

RECURSIVE RenderFrames(_, _, _)
\* the loop of lines 327-342 over the sorted frame times
RenderFrames(leds, keys, grid_state) ==
    IF keys = <<>> THEN <<>>
    ELSE LET state == UpdateGridState(grid_state, FrameOf(leds, Head(keys)))
         IN  <<RenderFrame(Head(keys), state)>>
             \o RenderFrames(leds, Tail(keys), state)

\* generate_session_video_ascii(session_id, output_file)
GenerateAscii(sid) ==
    LET leds == get_session_led_changes(led_changes, sid)
        keys == sorted({frame_time(leds[i]) : i \in 1..Len(leds)})
    IN  /\ IF leds = <<>>
           THEN /\ output_file' = output_file             \* "No LED changes"
                /\ last_call' = [op |-> "generate_session_video_ascii",
                                 result |-> "no led changes", session_id |-> sid]
           ELSE /\ output_file' = RenderFrames(leds, keys, [c \in Cells |-> Off])
                /\ last_call' = [op |-> "generate_session_video_ascii",
                                 result |-> "ok", session_id |-> sid]
        /\ UNCHANGED <<storeVars, now, calls, overlap, writerVars, ctlVars,
                       playVars, animVars, turnVars, cfgVars>>

AsciiStart ==
    /\ sessions = <<>>
    /\ StartSession("A")
    /\ UNCHANGED <<writerVars, ctlVars, extVars, playVars>>

AsciiLed ==
    /\ Len(led_changes) < MaxAsciiLeds
    /\ \E c \in Cells, color \in {Off, <<255, 0, 0>>} : record_led_change(c[1], c[2], color)
    /\ UNCHANGED <<writerVars, ctlVars, extVars, playVars>>

AsciiGenerate == \E sid \in 1..MaxSessions : GenerateAscii(sid)

NextAscii == AsciiStart \/ AsciiLed \/ Tick \/ AsciiGenerate

SpecAscii == Init /\ [][NextAscii]_vars

\* the LED change that is the latest one to cell c up to frame time t
LatestChange(rows, c, t) ==
    {r \in rows :
        /\ <<r.x, r.y>> = c
        /\ r.relative_time <= t
        /\ \A q \in rows :
              (<<q.x, q.y>> = c /\ q.relative_time <= t)
                  => (\/ q.relative_time < r.relative_time
                      \/ (q.relative_time = r.relative_time /\ q.id <= r.id))}

\* C39: the ASCII timeline has one frame per 0.1 s bucket that holds an LED
\* change, in ascending time; a cell of a frame is drawn lit exactly when
\* the latest change to that cell in this or an earlier frame has
\* r + g + b > 0; generating it changes neither the store nor the playback
\* state.
C39_AsciiFrames ==
    [][(/\ last_call'.op = "generate_session_video_ascii"
        /\ last_call'.result = "ok")
          => LET sid == last_call'.session_id
                 rows == {led_changes[i] : i \in {j \in 1..Len(led_changes) :
                                                    led_changes[j].session_id = sid}}
                 out == output_file'
             IN  /\ {out[i].frame_time : i \in 1..Len(out)}
                        = {r.relative_time : r \in rows}
                 /\ \A i, j \in 1..Len(out) :
                        i < j => out[i].frame_time < out[j].frame_time
                 /\ \A i \in 1..Len(out), c \in Cells :
                        out[i].rows[c] = "lit"
                            <=> \E r \in LatestChange(rows, c, out[i].frame_time) :
                                    r.color_r + r.color_g + r.color_b > 0
                 /\ UNCHANGED <<storeVars, playVars>>]_vars

\* a file of two frames: both cells lit in the first, cell (0, 0) switched
\* off in the second while cell (1, 0) stays lit
C39_Witness ==
    /\ last_call.op = "generate_session_video_ascii"
    /\ Len(output_file) = 2
    /\ output_file[1].rows = [c \in Cells |-> "lit"]
    /\ output_file[2].rows[<<0, 0>>] = "unlit"
    /\ output_file[2].rows[<<1, 0>>] = "lit"
    /\ \A i \in 1..Len(led_changes) :
           <<led_changes[i].x, led_changes[i].y>> = <<1, 0>>
               => led_changes[i].relative_time = 0


\* ------------------------------------------------------------------ claims: registry
\* C40: every animation thread that is in its loop and has not been told to
\* stop has its own stop flag registered under its button, so that
\* stop_animation(x, y) reaches it; the cleanup of another thread never
\* removes that entry.
C40_LiveThreadRegistered ==
    \A t \in 1..Len(athreads) :
        (athreads[t].pc = "loop" /\ ~athreads[t].flag)
            => animation_stop_flags[athreads[t].key] = t

====
